---- MODULE Spec2Model ----
(***************************************************************************)
(* Model of the ponder sync engine: the sync store (event / interval /     *)
(* raw tables), the per-chain historical sync, the per-chain LocalSync     *)
(* pacer and the omnichain coordinator (getEvents generator and the        *)
(* realtime event handlers).                                               *)
(*                                                                         *)
(* Checkpoints are fixed-width decimal strings in the source; here every   *)
(* field is one decimal digit wide, so a checkpoint is the number whose    *)
(* decimal digits are the six fields and string order is number order.     *)
(***************************************************************************)
EXTENDS Integers, Sequences, FiniteSets, TLC

VARIABLES
    pg,             \* SpecPage: one pagination run over SyncStore.getEvents
    run,            \* SpecRun: run()'s start routine, realtime queue and shutdown
    sources,        \* args.sources: the configured filters, declaration order
    syncStore,      \* sync store: the block, log, transaction, event and interval tables
    hist,           \* per chain: historical sync (intervalsCache, latestBlock, blockCache)
                    \* and the requests and store calls of its last sync()
    local,          \* per chain: LocalSync (fromBlock, finalizedBlock, _latestBlock, ...)
    localSyncs,     \* keys of the coordinator's localSyncs map
    realtimeSyncs,  \* keys of the coordinator's realtimeSyncs map (running followers)
    chain,          \* per chain: the remote chain as the follower sees it
    gen,            \* the getEventsOmni generator (position, cursor, yielded events)
    raised,         \* what the last realtime handler passed to args.onRealtimeEvent, in order
    counters,       \* failures / reorgs / restarts so far (bounded)
    bloomCheck      \* SpecBloom: one isFilterInBloom call (block logs, filter, result)

vars == <<pg, run, sources, syncStore, hist, local,
          localSyncs, realtimeSyncs, chain, gen, raised, counters, bloomCheck>>

\* `undefined` / NULL where a number is expected, and where an address is.
Undefined == 0 - 1
NoAddress == "undefined"

Min2(a, b) == IF a <= b THEN a ELSE b
Max2(a, b) == IF a >= b THEN a ELSE b

RECURSIVE SetMin(_)
SetMin(S) ==
    LET x == CHOOSE y \in S : TRUE
    IN  IF S = {x} THEN x ELSE Min2(x, SetMin(S \ {x}))

(***************************************************************************)
(* Checkpoint codec.  Width of every field: one digit (Radix 10).          *)
(***************************************************************************)
Radix == 10

\* encodeCheckpoint: the fields zero-padded to their width and concatenated.
\* A field wider than its width keeps its low digits (substr(x, -w, w)).
\* A plausible slip: chainId and blockNumber change places.
encodeCheckpointSwapped(cp) ==
    (((((cp.blockTimestamp % Radix) * Radix
        + (cp.blockNumber % Radix)) * Radix
        + (cp.chainId % Radix)) * Radix
        + (cp.transactionIndex % Radix)) * Radix
        + (cp.eventType % Radix)) * Radix
        + (cp.eventIndex % Radix)

encodeCheckpoint(cp) ==
    (((((cp.blockTimestamp % Radix) * Radix
        + (cp.chainId % Radix)) * Radix
        + (cp.blockNumber % Radix)) * Radix
        + (cp.transactionIndex % Radix)) * Radix
        + (cp.eventType % Radix)) * Radix
        + (cp.eventIndex % Radix)

zeroCheckpoint ==
    [blockTimestamp |-> 0, chainId |-> 0, blockNumber |-> 0,
     transactionIndex |-> 0, eventType |-> 0, eventIndex |-> 0]

maxCheckpoint ==
    [blockTimestamp |-> Radix - 1, chainId |-> Radix - 1, blockNumber |-> Radix - 1,
     transactionIndex |-> Radix - 1, eventType |-> Radix - 1, eventIndex |-> Radix - 1]

(***************************************************************************)
(* SyncStore.getEvents                                                     *)
(***************************************************************************)
\* A plausible slip: ORDER BY ... DESC.
RowBeforeDescending(a, b) ==
    \/ a.checkpoint > b.checkpoint
    \/ a.checkpoint = b.checkpoint /\ a.filter_id > b.filter_id

\* ORDER BY checkpoint ASC, filter_id ASC
RowBefore(a, b) ==
    \/ a.checkpoint < b.checkpoint
    \/ a.checkpoint = b.checkpoint /\ a.filter_id < b.filter_id

RECURSIVE SortRows(_)
SortRows(rows) ==
    IF rows = {} THEN <<>>
    ELSE LET first == CHOOSE r \in rows : \A o \in rows : ~RowBefore(o, r)
         IN  <<first>> \o SortRows(rows \ {first})

\* ... LIMIT n
Take(s, n) == SubSeq(s, 1, Min2(n, Len(s)))

\* WHERE filter_id IN filters AND checkpoint > from AND checkpoint <= to
SelectEvents(table, filterIds, from, to) ==
    {e \in table : e.filter_id \in filterIds /\ e.checkpoint > from /\ e.checkpoint <= to}

\* A plausible slip: the cursor is always `to`, whatever the page holds.
getEventsCursorAlwaysTo(events, to, limit) == to

\* cursor = to when the page is short, else the checkpoint of its last row
getEventsCursor(events, to, limit) ==
    IF Len(events) # limit THEN to ELSE events[Len(events)].checkpoint

getEvents(table, filterIds, from, to, limit) ==
    LET events == Take(SortRows(SelectEvents(table, filterIds, from, to)), limit)
    IN  [events |-> events, cursor |-> getEventsCursor(events, to, limit)]

(***************************************************************************)
(* SpecPage: a caller paginating SyncStore.getEvents over a fixed table.   *)
(***************************************************************************)
PgMaxCheckpoint == 3
PgMaxLimit == 3
PgFilterIds == {1, 2}

PgRow(f, c) ==
    [filter_id |-> f, checkpoint |-> c, chain_id |-> 1, block_number |-> c,
     block_hash |-> <<1, c, 0>>, log_index |-> 0]

PgUniverse == {PgRow(f, c) : f \in PgFilterIds, c \in 1..PgMaxCheckpoint}

PgIdle == [phase |-> "off"]

\* No isFilterInBloom call is being looked at.
BloomIdle == [phase |-> "off"]

PgInit ==
    \E table \in SUBSET PgUniverse, filters \in (SUBSET PgFilterIds) \ {{}},
       from0 \in 0..PgMaxCheckpoint, limit \in 1..PgMaxLimit :
      \E to \in from0..PgMaxCheckpoint :
        pg = [phase |-> "paging", table |-> table, filters |-> filters,
              from0 |-> from0, from |-> from0, to |-> to, limit |-> limit,
              out |-> <<>>, lastFrom |-> from0, lastEvents |-> <<>>,
              lastCursor |-> from0, calls |-> 0]

\* One call of the pagination loop: `from = cursor`.
PgCall ==
    /\ pg.phase = "paging"
    /\ pg.from # pg.to
    /\ LET r == getEvents(pg.table, pg.filters, pg.from, pg.to, pg.limit)
       IN  pg' = [pg EXCEPT !.out = @ \o r.events, !.from = r.cursor,
                            !.lastFrom = pg.from, !.lastEvents = r.events,
                            !.lastCursor = r.cursor, !.calls = @ + 1]
    /\ UNCHANGED <<bloomCheck, run, sources, syncStore, hist, local, localSyncs, realtimeSyncs,
                   chain, gen, raised, counters>>

\* The caller stops when from == to.
PgStop ==
    /\ pg.phase = "paging"
    /\ pg.from = pg.to
    /\ pg' = [pg EXCEPT !.phase = "done"]
    /\ UNCHANGED <<bloomCheck, run, sources, syncStore, hist, local, localSyncs, realtimeSyncs,
                   chain, gen, raised, counters>>


(***************************************************************************)
(* The remote chains and the configured sources.                           *)
(***************************************************************************)
Chains == {1, 2}

\* The finalized block LocalSync fetches at construction:
\* max(0, latest.number - finalityBlockCount).
Finalized0(c) == IF c = 1 THEN 3 ELSE 2

\* How far past its first finalized block a follower's head may get.
MaxAhead == 1
MaxHead(c) == Finalized0(c) + MaxAhead

\* How many disturbances (a rejected RPC request, a reorg, a restart of the
\* process) one run may see.
MaxFaults == 1
Faults(k) == k.failures + k.reorgs + k.restarts

\* block.timestamp of block n of chain c (strictly increasing in n).
Timestamp(c, n) == IF c = 1 THEN n + 3 ELSE 2 * n + 1

\* Block hash: chain, number and the branch (number of reorgs seen when the
\* block was produced).
BlockHash(c, n, k) == <<c, n, k>>

\* The logs of block n of chain c on branch k: <<logIndex, address>>.  Every
\* log is emitted by its own transaction, transactionIndex = logIndex.
WorldLogs(c, n, k) ==
    IF k > 0 THEN {<<0, "b">>}
    ELSE IF c = 1
         THEN CASE n = 1 -> {<<0, "b">>}
                [] n = 2 -> {<<0, "b">>, <<1, "a">>}
                [] n = 3 -> {<<0, "a">>, <<1, "b">>}
                [] n = 4 -> {<<0, "a">>}
                [] OTHER -> {}
         ELSE CASE n = 0 -> {<<0, "a">>}
                [] n = 2 -> {<<0, "a">>}
                [] n = 3 -> {<<0, "a">>}
                [] OTHER -> {}

SyncBlock(c, n, k) ==
    [hash |-> BlockHash(c, n, k), chain_id |-> c, number |-> n,
     timestamp |-> Timestamp(c, n)]

SyncLog(c, n, k, l) ==
    [block_hash |-> BlockHash(c, n, k), log_index |-> l[1], chain_id |-> c,
     block_number |-> n, address |-> l[2],
     transaction_hash |-> <<c, n, k, l[1]>>]

SyncTransaction(c, n, k, i) ==
    [hash |-> <<c, n, k, i>>, chain_id |-> c, block_number |-> n,
     transaction_index |-> i]

\* Filters (sync/filter.ts).  `id` stands for getFilterId("event", filter)
\* and its order for the order of the filter_id strings.
LogFilter(id, c, address, fromBlock, toBlock) ==
    [id |-> id, type |-> "log", chainId |-> c, address |-> address,
     fromBlock |-> fromBlock, toBlock |-> toBlock, interval |-> 1, offset |-> 0]

BlockFilter(id, c, interval, offset, fromBlock, toBlock) ==
    [id |-> id, type |-> "block", chainId |-> c, address |-> NoAddress,
     fromBlock |-> fromBlock, toBlock |-> toBlock,
     interval |-> interval, offset |-> offset]

\* The source lists a run may be configured with.
Configs ==
    { <<LogFilter(1, 1, NoAddress, 0, Undefined)>>,
      <<LogFilter(1, 1, NoAddress, 0, Undefined), LogFilter(2, 1, "a", 0, Undefined)>>,
      <<LogFilter(1, 1, NoAddress, 0, Undefined), LogFilter(3, 2, NoAddress, 0, Undefined)>>,
      <<LogFilter(4, 1, NoAddress, 0, 1)>>,
      <<BlockFilter(5, 1, 2, 1, 0, Undefined), LogFilter(3, 2, NoAddress, 0, Undefined)>>,
      <<LogFilter(6, 1, NoAddress, 0, 3), LogFilter(3, 2, NoAddress, 0, Undefined)>>,
      <<LogFilter(7, 1, NoAddress, 0, 4), LogFilter(3, 2, NoAddress, 0, Undefined)>>,
      <<LogFilter(1, 1, NoAddress, 0, Undefined), LogFilter(8, 1, NoAddress, 3, 3)>>,
      <<LogFilter(9, 1, NoAddress, 0, 0)>>,
      <<LogFilter(4, 1, NoAddress, 0, 1), LogFilter(6, 1, NoAddress, 0, 3)>>,
      <<LogFilter(11, 1, NoAddress, 4, Undefined)>> }

Range(s) == {s[i] : i \in 1..Len(s)}

\* args.networks: the chains that have sources.
Networks(srcs) == {f.chainId : f \in Range(srcs)}

\* args.sources.filter(({ filter }) => filter.chainId === network.chainId)
ChainSources(srcs, c) == SelectSeq(srcs, LAMBDA f : f.chainId = c)

FilterById(srcs, id) == CHOOSE f \in Range(srcs) : f.id = id

(***************************************************************************)
(* Interval algebra (utils/interval.ts), over closed ranges <<lo, hi>>.    *)
(***************************************************************************)
IntervalBlocks(xs) == UNION {iv[1]..iv[2] : iv \in xs}

\* The maximal runs of consecutive numbers of a set: a minimal disjoint list.
ToIntervals(S) ==
    {<<lo, hi>> \in S \X S :
        /\ lo <= hi
        /\ \A n \in lo..hi : n \in S
        /\ (lo - 1) \notin S
        /\ (hi + 1) \notin S}

intervalUnion(xs) == ToIntervals(IntervalBlocks(xs))

\* The interval algebra is defined on closed ranges lo <= hi.  What the
\* difference makes of an inverted pair (lo > hi) is not fixed: it may
\* treat it as the empty range or hand it back untouched.
InvertedOutcomes == {"empty", "kept"}

intervalDifference(xs, ys, inverted) ==
    ToIntervals(IntervalBlocks(xs) \ IntervalBlocks(ys))
        \cup (IF inverted = "kept" THEN {iv \in xs : iv[1] > iv[2]} ELSE {})

\* The intervals of a set in ascending order.
RECURSIVE SortIntervals(_)
SortIntervals(xs) ==
    IF xs = {} THEN <<>>
    ELSE LET first == CHOOSE x \in xs : \A y \in xs : x[1] <= y[1]
         IN  <<first>> \o SortIntervals(xs \ {first})


(***************************************************************************)
(* Sync store writes.  A store value `db` is a record of the five tables.  *)
(***************************************************************************)
\* INSERT ... ON CONFLICT (key) DO NOTHING: a row whose key exists is dropped.
InsertIgnore(table, rows, Key(_)) ==
    table \cup {r \in rows : \A o \in table : Key(o) # Key(r)}

BlockKey(r) == <<r.hash, r.chain_id>>
LogKey(r) == <<r.block_hash, r.log_index, r.chain_id>>
TransactionKey(r) == <<r.hash, r.chain_id>>
\* A plausible slip: the conflict target includes the block hash.
EventKeyWithBlockHash(r) == <<r.filter_id, r.checkpoint, r.block_hash>>

EventKey(r) == <<r.filter_id, r.checkpoint>>

TransactionReceiptKey(r) == <<r.hash, r.chain_id>>

\* A plausible slip: ON CONFLICT DO UPDATE, the new row replaces the stored one.
insertBlockReplace(db, block) ==
    [db EXCEPT !.block = {r \in @ : BlockKey(r) # BlockKey(block)} \cup {block}]

insertBlock(db, block) ==
    [db EXCEPT !.block = InsertIgnore(@, {block}, BlockKey)]

insertLogs(db, logs) ==
    [db EXCEPT !.log = InsertIgnore(@, logs, LogKey)]

insertTransaction(db, transaction) ==
    [db EXCEPT !.transaction = InsertIgnore(@, {transaction}, TransactionKey)]

insertTransactionReceipt(db, transactionReceipt) ==
    [db EXCEPT !.transaction_receipt = InsertIgnore(@, {transactionReceipt},
                                                    TransactionReceiptKey)]

\* A plausible slip: the interval row is written one block too long.
insertIntervalTooLong(db, filter, interval) ==
    [db EXCEPT !.interval = @ \cup
        {[filter_id |-> filter.id, chain_id |-> filter.chainId,
          from |-> interval[1], to |-> interval[2] + 1]}]

\* insertInterval appends one row.  Rows carry no serial id here, so a row
\* equal to a stored one is not counted twice.
insertInterval(db, filter, interval) ==
    [db EXCEPT !.interval = @ \cup
        {[filter_id |-> filter.id, chain_id |-> filter.chainId,
          from |-> interval[1], to |-> interval[2]]}]

FilterIntervals(table, id) ==
    {<<r.from, r.to>> : r \in {x \in table : x.filter_id = id}}

\* A plausible slip: the filter's rows are read but not deleted.
getIntervalsKeepRows(db, filter) ==
    LET merged == intervalUnion(FilterIntervals(db.interval, filter.id))
    IN  [db |-> [db EXCEPT !.interval =
                    @ \cup {[filter_id |-> filter.id, chain_id |-> filter.chainId,
                             from |-> iv[1], to |-> iv[2]] : iv \in merged}],
         intervals |-> merged]

\* getIntervals: delete the filter's rows, write back their union, return it.
getIntervals(db, filter) ==
    LET merged == intervalUnion(FilterIntervals(db.interval, filter.id))
    IN  [db |-> [db EXCEPT !.interval =
                    {r \in @ : r.filter_id # filter.id} \cup
                    {[filter_id |-> filter.id, chain_id |-> filter.chainId,
                      from |-> iv[1], to |-> iv[2]] : iv \in merged}],
         intervals |-> merged]

\* addressSQL: no address constraint, or address = the filter's address.
MatchesAddress(filter, log) ==
    filter.address = NoAddress \/ log.address = filter.address

\* A plausible slip: the filter's bounds are exclusive.
InBoundsExclusive(filter, interval, n) ==
    /\ n > filter.fromBlock
    /\ (filter.toBlock # Undefined => n < filter.toBlock)
    /\ n >= interval[1]
    /\ n <= interval[2]

\* block_number between the filter's bounds and the interval's.
InBounds(filter, interval, n) ==
    /\ n >= filter.fromBlock
    /\ (filter.toBlock # Undefined => n <= filter.toBlock)
    /\ n >= interval[1]
    /\ n <= interval[2]

\* The rows populateEvents selects for a log filter; the checkpoint's
\* timestamp and transaction index are sub-selects on the block and
\* transaction tables (a log without them gets no checkpoint and no row).
LogEventRows(db, filter, interval) ==
    {[filter_id |-> filter.id,
      checkpoint |-> encodeCheckpoint(
          [blockTimestamp |-> (CHOOSE b \in db.block :
                                  b.hash = l.block_hash /\ b.chain_id = l.chain_id).timestamp,
           chainId |-> l.chain_id,
           blockNumber |-> l.block_number,
           transactionIndex |-> (CHOOSE t \in db.transaction :
                                  t.hash = l.transaction_hash /\ t.chain_id = l.chain_id
                                ).transaction_index,
           eventType |-> 5,
           eventIndex |-> l.log_index]),
      chain_id |-> l.chain_id, block_number |-> l.block_number,
      block_hash |-> l.block_hash, log_index |-> l.log_index] :
     l \in {x \in db.log :
              /\ x.chain_id = filter.chainId
              /\ MatchesAddress(filter, x)
              /\ InBounds(filter, interval, x.block_number)
              /\ \E b \in db.block : b.hash = x.block_hash /\ b.chain_id = x.chain_id
              /\ \E t \in db.transaction :
                    t.hash = x.transaction_hash /\ t.chain_id = x.chain_id}}

\* The rows populateEvents selects for a block filter.
BlockEventRows(db, filter, interval) ==
    {[filter_id |-> filter.id,
      checkpoint |-> encodeCheckpoint(
          [blockTimestamp |-> b.timestamp, chainId |-> b.chain_id,
           blockNumber |-> b.number, transactionIndex |-> Radix - 1,
           eventType |-> 5, eventIndex |-> 0]),
      chain_id |-> b.chain_id, block_number |-> b.number,
      block_hash |-> b.hash, log_index |-> Undefined] :
     b \in {x \in db.block :
              /\ x.chain_id = filter.chainId
              /\ (x.number - filter.offset) % filter.interval = 0
              /\ InBounds(filter, interval, x.number)}}

\* Of the selected rows that share one (filter_id, checkpoint), one is kept.
DistinctByKey(rows) ==
    {r \in rows : \A o \in rows :
        EventKey(o) = EventKey(r) => r.block_hash[3] <= o.block_hash[3]}

\* populateEvents: INSERT INTO event ... SELECT ... ON CONFLICT DO NOTHING.
populateEvents(db, filter, interval) ==
    LET rows == IF filter.type = "log"
                THEN LogEventRows(db, filter, interval)
                ELSE BlockEventRows(db, filter, interval)
    IN  [db EXCEPT !.event = InsertIgnore(@, DistinctByKey(rows), EventKey)]


(***************************************************************************)
(* The RPC, as the historical sync sees it.                                *)
(***************************************************************************)
\* The branch of the canonical block n of chain c.
CanonBranch(ch, c, n) == ch[c].branches[n + 1]

\* _eth_getBlockByNumber
RpcBlock(ch, c, n) == SyncBlock(c, n, CanonBranch(ch, c, n))

\* block.transactions of the canonical block n
RpcBlockTransactions(ch, c, n) ==
    {SyncTransaction(c, n, CanonBranch(ch, c, n), l[1]) :
        l \in WorldLogs(c, n, CanonBranch(ch, c, n))}

\* _eth_getLogs({address, topics, fromBlock, toBlock})
RpcLogs(ch, c, filter, range) ==
    {log \in UNION {{SyncLog(c, n, CanonBranch(ch, c, n), l) :
                        l \in WorldLogs(c, n, CanonBranch(ch, c, n))} :
                    n \in range[1]..range[2]} :
        MatchesAddress(filter, log)}

(***************************************************************************)
(* Historical sync (sync-historical/index.ts).  A run value `s` carries    *)
(* the store, latestBlock, blockCache, the RPC requests issued and the     *)
(* store calls made by this sync() invocation, and whether it is still     *)
(* running (ok) or has thrown.                                             *)
(***************************************************************************)
\* No RPC request of this invocation is rejected.
NoFail == [kind |-> "none", filter |-> 0, lo |-> 0, rejected |-> {}, inverted |-> "empty"]

\* JavaScript's remainder: the sign of the dividend.
JsRem(a, n) == IF a >= 0 THEN a % n ELSE 0 - ((0 - a) % n)

\* A plausible slip: the block cache is never consulted.
CachedNever(s, n) == {}

Cached(s, n) == {e \in s.blockCache : e.number = n}

\* Update `latestBlock` if `block` is closer to tip.
NextLatestBlock(latestBlock, n) ==
    IF n > (IF latestBlock = Undefined THEN 0 ELSE latestBlock) THEN n ELSE latestBlock

\* syncBlock(number, transactionHashes); `rejected`: the block numbers whose
\* eth_getBlockByNumber request is rejected.
syncBlock(s, ch, c, n, transactionHashes, rejected) ==
    LET hit == Cached(s, n) # {}
        failed == IF hit THEN \E e \in Cached(s, n) : e.state = "rejected"
                  ELSE n \in rejected
        s1 == IF hit THEN s
              ELSE [s EXCEPT
                      !.rpc = @ \cup {[method |-> "eth_getBlockByNumber", filter |-> 0,
                                       from |-> n, to |-> n]},
                      !.blockRequests = Append(@, n),
                      !.blockCache = @ \cup
                          {[number |-> n,
                            state |-> IF failed THEN "rejected" ELSE "resolved"]}]
        s2 == IF hit \/ failed THEN s1
              ELSE [s1 EXCEPT !.db = insertBlock(@, RpcBlock(ch, c, n)),
                              !.latestBlock = NextLatestBlock(@, n)]
        txs == {t \in RpcBlockTransactions(ch, c, n) : t.hash \in transactionHashes}
    IN  IF failed THEN [s2 EXCEPT !.ok = FALSE]
        ELSE [s2 EXCEPT !.db = [@ EXCEPT !.transaction =
                                    InsertIgnore(@, txs, TransactionKey)]]

\* Promise.all(blocks.map((b) => syncBlock(b, transactionHashes)))
RECURSIVE syncBlocks(_, _, _, _, _, _)
syncBlocks(s, ch, c, blocks, transactionHashes, rejected) ==
    IF blocks = {} THEN s
    ELSE LET n == SetMin(blocks)
         IN  syncBlocks(syncBlock(s, ch, c, n, transactionHashes, rejected),
                        ch, c, blocks \ {n}, transactionHashes, rejected)

RejectedHere(filter, range, fail) ==
    IF fail.kind = "getBlock" /\ fail.filter = filter.id /\ fail.lo = range[1]
    THEN fail.rejected ELSE {}

syncLogFilter(s, ch, c, filter, range, fail) ==
    LET request == [method |-> "eth_getLogs", filter |-> filter.id,
                    from |-> range[1], to |-> range[2]]
        logs == RpcLogs(ch, c, filter, range)
    IN  IF fail.kind = "getLogs" /\ fail.filter = filter.id /\ fail.lo = range[1]
        THEN [s EXCEPT !.rpc = @ \cup {request}, !.ok = FALSE]
        ELSE syncBlocks([s EXCEPT !.rpc = @ \cup {request},
                                  !.db = insertLogs(@, logs)],
                        ch, c, {l.block_number : l \in logs},
                        {l.transaction_hash : l \in logs},
                        RejectedHere(filter, range, fail))

\* The blocks syncBlockFilter asks for: from interval[0] + offset in steps
\* of filter.interval.
RequiredBlocks(filter, range) ==
    LET baseOffset == JsRem(range[1] - filter.offset, filter.interval)
        offset == IF baseOffset = 0 THEN 0 ELSE filter.interval - baseOffset
    IN  {b \in range[1]..range[2] :
            b >= range[1] + offset /\ (b - (range[1] + offset)) % filter.interval = 0}

syncBlockFilter(s, ch, c, filter, range, fail) ==
    syncBlocks(s, ch, c, RequiredBlocks(filter, range), {},
               RejectedHere(filter, range, fail))

\* for (const interval of requiredIntervals) { ... }
RECURSIVE syncRequired(_, _, _, _, _, _)
syncRequired(s, ch, c, filter, required, fail) ==
    IF required = <<>> \/ ~s.ok THEN s
    ELSE syncRequired(
            IF filter.type = "log"
            THEN syncLogFilter(s, ch, c, filter, Head(required), fail)
            ELSE syncBlockFilter(s, ch, c, filter, Head(required), fail),
            ch, c, filter, Tail(required), fail)

\* The interval of one source: the requested window cut to the filter's range.
SourceInterval(filter, window) ==
    <<Max2(filter.fromBlock, window[1]),
      IF filter.toBlock = Undefined THEN window[2] ELSE Min2(filter.toBlock, window[2])>>

\* `filter.toBlock && filter.toBlock < _interval[0]` (0 and undefined are falsy)
AfterToBlock(filter, window) ==
    filter.toBlock # Undefined /\ filter.toBlock # 0 /\ filter.toBlock < window[1]

RequiredIntervals(filter, window, intervalsCache, inverted) ==
    intervalDifference({SourceInterval(filter, window)}, intervalsCache[filter.id], inverted)

\* The body of sync()'s loop for one source.
syncSource(s, ch, c, filter, window, intervalsCache, fail) ==
    LET interval == SourceInterval(filter, window)
        required == RequiredIntervals(filter, window, intervalsCache, fail.inverted)
        s1 == syncRequired(s, ch, c, filter, SortIntervals(required), fail)
    IN  IF ~s.ok \/ AfterToBlock(filter, window) \/ required = {} THEN s
        ELSE IF ~s1.ok THEN s1
        ELSE [s1 EXCEPT
                !.db = insertInterval(populateEvents(@, filter, interval), filter, interval),
                !.calls = @ \cup {[op |-> "populateEvents", filter |-> filter.id,
                                   interval |-> interval],
                                  [op |-> "insertInterval", filter |-> filter.id,
                                   interval |-> interval]}]

RECURSIVE syncSources(_, _, _, _, _, _, _)
syncSources(s, ch, c, srcs, window, intervalsCache, fail) ==
    IF srcs = <<>> THEN s
    ELSE syncSources(syncSource(s, ch, c, Head(srcs), window, intervalsCache, fail),
                     ch, c, Tail(srcs), window, intervalsCache, fail)

\* historicalSync.sync(_interval): every source in order, then
\* blockCache.clear() (not reached when a request has thrown).
historicalSync(store, h, ch, c, srcs, window, fail) ==
    LET s0 == [db |-> store, latestBlock |-> h.latestBlock, blockCache |-> h.blockCache,
               rpc |-> {}, blockRequests |-> <<>>, calls |-> {}, ok |-> TRUE]
        s1 == syncSources(s0, ch, c, ChainSources(srcs, c), window, h.intervalsCache, fail)
    IN  IF s1.ok THEN [s1 EXCEPT !.blockCache = {}] ELSE s1


(***************************************************************************)
(* LocalSync (sync/local.ts).                                              *)
(***************************************************************************)
\* blocksPerEvent * 1_000 with blocksPerEvent = 0.25 / sources.length, on the
\* model's scale of block numbers: 2 blocks for one source.
SyncStepUnit == 2
SyncStep(srcs, c) == SyncStepUnit \div Len(ChainSources(srcs, c))

\* Earliest `startBlock` among all filters.
StartOf(srcs, c) == SetMin({f.fromBlock : f \in Range(ChainSources(srcs, c))})

\* `undefined` if a filter has no toBlock, else Math.min of the toBlocks.
EndOf(srcs, c) ==
    IF \E f \in Range(ChainSources(srcs, c)) : f.toBlock = Undefined
    THEN Undefined
    ELSE SetMin({f.toBlock : f \in Range(ChainSources(srcs, c))})

\* createLocalSync: the LocalSync of chain c, its finalized block given.
createLocalSync(srcs, c, finalized) ==
    [startBlock |-> StartOf(srcs, c), endBlock |-> EndOf(srcs, c),
     finalizedBlock |-> finalized, finalized0 |-> finalized,
     fromBlock |-> StartOf(srcs, c), latestOverride |-> Undefined]

\* createHistoricalSync: intervalsCache is read from the store, once.
createHistoricalSync(store, srcs, c) ==
    [intervalsCache |-> [id \in {f.id : f \in Range(ChainSources(srcs, c))} |->
                            intervalUnion(FilterIntervals(store.interval, id))],
     latestBlock |-> Undefined, blockCache |-> {},
     window |-> <<0, 0>>, rpc |-> {}, blockRequests |-> <<>>, calls |-> {}]

\* The store after every getIntervals call of the constructors.
RECURSIVE CompactIntervals(_, _)
CompactIntervals(store, srcs) ==
    IF srcs = <<>> THEN store
    ELSE CompactIntervals(getIntervals(store, Head(srcs)).db, Tail(srcs))

\* get latestBlock()
\* A plausible slip: the finalized block takes precedence over endBlock.
latestBlockFinalizedFirst(l, h) ==
    IF l.latestOverride # Undefined THEN l.latestOverride
    ELSE IF l.fromBlock >= l.finalized0 THEN l.finalized0
    ELSE IF l.endBlock # Undefined /\ l.fromBlock >= l.endBlock THEN l.endBlock
    ELSE h.latestBlock

latestBlock(l, h) ==
    IF l.latestOverride # Undefined THEN l.latestOverride
    ELSE IF l.endBlock # Undefined /\ l.fromBlock >= l.endBlock THEN l.endBlock
    ELSE IF l.fromBlock >= l.finalized0 THEN l.finalized0
    ELSE h.latestBlock

\* The window of one sync() call.
\* A plausible slip: the window runs to the finalized block, whatever the step.
SyncWindowNoStep(l, step) == <<l.fromBlock, l.finalized0>>

SyncWindow(l, step) ==
    <<l.fromBlock, Min2(l.fromBlock + step, l.finalized0)>>

isComplete(l) == l.endBlock # Undefined /\ l.finalizedBlock >= l.endBlock

(***************************************************************************)
(* Omnichain coordinator (sync/index.ts).                                  *)
(***************************************************************************)
\* limit: 10_000, on the model's scale.
PageLimit == 2

TagBlock(tag, l, h) ==
    CASE tag = "start" -> l.startBlock
      [] tag = "finalized" -> l.finalizedBlock
      [] OTHER -> latestBlock(l, h)

\* getChainsCheckpoint reads localSyncs.get(network)! of every network and
\* its `${tag}Block`!: it throws when one of them is missing.
CheckpointThrows(tag, srcs, loc, hst, keys) ==
    \E c \in Networks(srcs) : c \notin keys \/ TagBlock(tag, loc[c], hst[c]) = Undefined

\* Returns the minimum checkpoint across all chains.
getChainsCheckpoint(tag, srcs, loc, hst) ==
    SetMin({encodeCheckpoint(
               [(IF tag = "start" THEN zeroCheckpoint ELSE maxCheckpoint) EXCEPT
                   !.blockTimestamp = Timestamp(c, TagBlock(tag, loc[c], hst[c])),
                   !.chainId = c,
                   !.blockNumber = TagBlock(tag, loc[c], hst[c])]) :
            c \in Networks(srcs)})

SourceIds(srcs) == {f.id : f \in Range(srcs)}

GenIdle ==
    [pc |-> "idle", pending |-> {}, start |-> 0, end |-> 0, from |-> 0, to |-> 0,
     yielded |-> <<>>, realtime |-> FALSE]

\* run(): the start routine is in its historical loop, no follower runs,
\* the realtime queue is empty and started, shutdown has not been called.
RunInit ==
    [start |-> "historical", followers |-> {}, killed |-> FALSE,
     emitted |-> <<>>, handlers |-> {}, raisedLog |-> <<>>,
     queue |-> <<>>, tasks |-> {}, started |-> <<>>, paused |-> FALSE,
     shutdown |-> "idle", dbKilled |-> FALSE]

EmptyStore ==
    [block |-> {}, log |-> {}, transaction |-> {}, transaction_receipt |-> {},
     event |-> {}, interval |-> {}, address |-> {}]

\* The follower's view of a chain: its head, its finalized block, the
\* branch new blocks are produced on, the branch of every block it holds, and
\* the common ancestor when its last event was a `reorg`.
NewFollower(finalized, branch, branches) ==
    [head |-> finalized, finalized |-> finalized, branch |-> branch,
     branches |-> SubSeq(branches, 1, finalized + 1), ancestor |-> Undefined]

\* createSync: one LocalSync and one historical sync per network.
createSyncLocal(srcs, finalized) ==
    [c \in Networks(srcs) |-> createLocalSync(srcs, c, finalized[c])]

createSyncHist(store, srcs) ==
    [c \in Networks(srcs) |-> createHistoricalSync(store, srcs, c)]

Init ==
    /\ pg = PgIdle
    /\ run = RunInit
    /\ sources \in Configs
    /\ syncStore = EmptyStore
    /\ local = createSyncLocal(sources, [c \in Networks(sources) |-> Finalized0(c)])
    /\ hist = createSyncHist(EmptyStore, sources)
    /\ localSyncs = Networks(sources)
    /\ realtimeSyncs = {}
    /\ chain = [c \in Networks(sources) |->
                  NewFollower(Finalized0(c), 0, [i \in 1..(Finalized0(c) + 1) |-> 0])]
    /\ gen = GenIdle
    /\ raised = <<>>
    /\ counters = [failures |-> 0, reorgs |-> 0, restarts |-> 0]
    /\ bloomCheck = BloomIdle

\* getEventsOmni up to its first sync: start, end and the cursor.
StartGenerator ==
    gen' = [GenIdle EXCEPT
              !.pc = "sync",
              !.pending = Networks(sources),
              !.start = getChainsCheckpoint("start", sources, local, hist),
              !.end = getChainsCheckpoint("finalized", sources, local, hist),
              !.from = getChainsCheckpoint("start", sources, local, hist)]

\* run(): `for await (const events of sync.getEvents())`
GetEvents ==
    /\ gen.pc = "idle"
    /\ StartGenerator
    /\ UNCHANGED <<bloomCheck, pg, run, sources, syncStore, hist, local, localSyncs, realtimeSyncs,
                   chain, raised, counters>>

\* After a sync() call has thrown, getEvents() is called again: the same
\* LocalSyncs and historical syncs are synced again.
RetryGetEvents ==
    /\ gen.pc = "error"
    /\ gen.pending = {}
    /\ StartGenerator
    /\ UNCHANGED <<bloomCheck, pg, run, sources, syncStore, hist, local, localSyncs, realtimeSyncs,
                   chain, raised, counters>>

\* The requests of one sync() call that may be rejected.
FailChoices(c, window) ==
    {[kind |-> "getLogs", filter |-> id, lo |-> lo, rejected |-> {}, inverted |-> inverted] :
        id \in SourceIds(ChainSources(sources, c)), lo \in window[1]..window[2],
        inverted \in InvertedOutcomes}
    \cup
    {[kind |-> "getBlock", filter |-> id, lo |-> lo, rejected |-> R, inverted |-> inverted] :
        id \in SourceIds(ChainSources(sources, c)), lo \in window[1]..window[2],
        R \in (SUBSET (window[1]..window[2])) \ {{}}, inverted \in InvertedOutcomes}

\* localSync.sync() of chain c with the requests of `fail` rejected: the
\* cursor moves to the end of the window, then historicalSync.sync(window).
SyncChain(c, fail) ==
    LET window == SyncWindow(local[c], SyncStep(sources, c))
        r == historicalSync(syncStore, hist[c], chain, c, sources, window, fail)
    IN  /\ local' = [local EXCEPT ![c].fromBlock = window[2]]
        /\ syncStore' = r.db
        /\ hist' = [hist EXCEPT ![c].latestBlock = r.latestBlock,
                                ![c].blockCache = r.blockCache,
                                ![c].window = window,
                                ![c].rpc = r.rpc,
                                ![c].blockRequests = r.blockRequests,
                                ![c].calls = r.calls]
        /\ gen' = [gen EXCEPT !.pending = @ \ {c},
                              !.pc = IF ~r.ok /\ @ = "sync" THEN "error" ELSE @]

\* One chain's `l.sync()` of `Promise.all(_localSyncs.map((l) => l.sync()))`.
LocalSyncSync(c) ==
    /\ c \in gen.pending
    /\ \E inverted \in InvertedOutcomes :
          SyncChain(c, [NoFail EXCEPT !.inverted = inverted])
    /\ UNCHANGED <<bloomCheck, pg, run, sources, localSyncs, realtimeSyncs, chain, raised, counters>>

\* The same with an RPC request rejected (a transient RPC error).
LocalSyncSyncRejected(c) ==
    /\ c \in gen.pending
    /\ Faults(counters) < MaxFaults
    /\ \E fail \in FailChoices(c, SyncWindow(local[c], SyncStep(sources, c))) :
          LET window == SyncWindow(local[c], SyncStep(sources, c))
          IN  /\ ~historicalSync(syncStore, hist[c], chain, c, sources, window, fail).ok
              /\ historicalSync(syncStore, hist[c], chain, c, sources, window, fail)
                    # historicalSync(syncStore, hist[c], chain, c, sources, window,
                                     [NoFail EXCEPT !.inverted = fail.inverted])
              /\ SyncChain(c, fail)
    /\ counters' = [counters EXCEPT !.failures = @ + 1]
    /\ UNCHANGED <<bloomCheck, pg, run, sources, localSyncs, realtimeSyncs, chain, raised>>

\* After Promise.all: `continue` while a latestBlock is undefined, else `to`.
AfterSync ==
    /\ gen.pc = "sync"
    /\ gen.pending = {}
    /\ gen' = IF \E c \in Networks(sources) : latestBlock(local[c], hist[c]) = Undefined
              THEN [gen EXCEPT !.pending = Networks(sources)]
              ELSE [gen EXCEPT !.pc = "page",
                               !.to = getChainsCheckpoint("latest", sources, local, hist)]
    /\ UNCHANGED <<bloomCheck, pg, run, sources, syncStore, hist, local, localSyncs, realtimeSyncs,
                   chain, raised, counters>>

\* One round of the pagination loop: getEvents, yield, from = cursor.
Page ==
    /\ gen.pc = "page"
    /\ gen.from # gen.to
    /\ LET r == getEvents(syncStore.event, SourceIds(sources), gen.from, gen.to, PageLimit)
       IN  gen' = [gen EXCEPT !.yielded = @ \o r.events, !.from = r.cursor]
    /\ UNCHANGED <<bloomCheck, pg, run, sources, syncStore, hist, local, localSyncs, realtimeSyncs,
                   chain, raised, counters>>

\* `if (from === to) break;` then `if (to >= end) break;`
PageEnd ==
    /\ gen.pc = "page"
    /\ gen.from = gen.to
    /\ gen' = IF gen.to >= gen.end
              THEN [gen EXCEPT !.pc = "done"]
              ELSE [gen EXCEPT !.pc = "sync", !.pending = Networks(sources)]
    /\ UNCHANGED <<bloomCheck, pg, run, sources, syncStore, hist, local, localSyncs, realtimeSyncs,
                   chain, raised, counters>>


(***************************************************************************)
(* Realtime: the follower's events and the coordinator's handlers          *)
(* (onRealtimeSyncEventOmni).                                              *)
(***************************************************************************)
\* run(): sync.startRealtime() once the historical stream is drained.  A
\* complete chain is dropped from localSyncs, the others get a follower.
StartRealtime ==
    /\ gen.pc = "done"
    /\ ~gen.realtime
    /\ localSyncs' = {c \in localSyncs : ~isComplete(local[c])}
    /\ realtimeSyncs' = {c \in localSyncs : ~isComplete(local[c])}
    /\ gen' = [gen EXCEPT !.realtime = TRUE]
    /\ UNCHANGED <<bloomCheck, pg, run, sources, syncStore, hist, local, chain, raised, counters>>

\* The follower stores the raw data of a new head block before it emits
\* the `block` event.
RealtimeInsert(store, c, n, k) ==
    [store EXCEPT
        !.block = InsertIgnore(@, {SyncBlock(c, n, k)}, BlockKey),
        !.log = InsertIgnore(@, {SyncLog(c, n, k, l) : l \in WorldLogs(c, n, k)}, LogKey),
        !.transaction = InsertIgnore(@, {SyncTransaction(c, n, k, l[1]) :
                                            l \in WorldLogs(c, n, k)}, TransactionKey)]

RECURSIVE PopulateAll(_, _, _)
PopulateAll(store, filters, interval) ==
    IF filters = <<>> THEN store
    ELSE PopulateAll(populateEvents(store, Head(filters), interval), Tail(filters), interval)

RECURSIVE InsertIntervalAll(_, _, _)
InsertIntervalAll(store, filters, interval) ==
    IF filters = <<>> THEN store
    ELSE InsertIntervalAll(insertInterval(store, Head(filters), interval),
                           Tail(filters), interval)

\* while (true) { if (from === to) break; getEvents; raise; from = cursor }
RECURSIVE Paginate(_, _, _, _, _)
Paginate(table, filterIds, from, to, limit) ==
    IF from = to THEN <<>>
    ELSE LET r == getEvents(table, filterIds, from, to, limit)
         IN  <<r.events>> \o Paginate(table, filterIds, r.cursor, to, limit)

BlockNotifications(batches) ==
    [i \in 1..Len(batches) |-> [type |-> "block", events |-> batches[i], checkpoint |-> 0]]

\* case "block"
RealtimeBlock(c) ==
    /\ c \in realtimeSyncs
    /\ chain[c].head < MaxHead(c)
    /\ LET n == chain[c].head + 1
           filters == ChainSources(sources, c)
           populated == PopulateAll(RealtimeInsert(syncStore, c, n, chain[c].branch),
                                    filters, <<n, n>>)
           after == [local EXCEPT ![c].latestOverride = n]
       IN  /\ chain' = [chain EXCEPT ![c].head = n,
                                     ![c].branches = Append(@, chain[c].branch),
                                     ![c].ancestor = Undefined]
           /\ syncStore' = populated
           /\ IF CheckpointThrows("latest", sources, local, hist, localSyncs)
              THEN local' = local /\ raised' = <<>>
              ELSE /\ local' = after
                   /\ raised' = BlockNotifications(
                          Paginate(populated.event, SourceIds(filters),
                                   getChainsCheckpoint("latest", sources, local, hist),
                                   getChainsCheckpoint("latest", sources, after, hist),
                                   PageLimit))
    /\ UNCHANGED <<bloomCheck, pg, run, sources, hist, localSyncs, realtimeSyncs, gen, counters>>

\* Newly finalized range
FinalizeInterval(l, f) == <<l.finalizedBlock, f>>

\* case "finalize"
RealtimeFinalize(c) ==
    /\ c \in realtimeSyncs
    /\ \E f \in (chain[c].finalized + 1)..chain[c].head :
          LET interval == FinalizeInterval(local[c], f)
              after == [local EXCEPT ![c].finalizedBlock = f]
          IN  /\ chain' = [chain EXCEPT ![c].finalized = f]
              /\ IF CheckpointThrows("finalized", sources, local, hist, localSyncs)
                 THEN /\ raised' = <<>>
                      /\ UNCHANGED <<local, syncStore, localSyncs, realtimeSyncs>>
                 ELSE /\ local' = after
                      /\ syncStore' = InsertIntervalAll(syncStore, ChainSources(sources, c),
                                                        interval)
                      /\ raised' =
                            IF getChainsCheckpoint("finalized", sources, after, hist)
                                > getChainsCheckpoint("finalized", sources, local, hist)
                            THEN Append(<<>>,
                                    [type |-> "finalize", events |-> <<>>,
                                     checkpoint |-> getChainsCheckpoint(
                                         "finalized", sources, after, hist)])
                            ELSE <<>>
                      /\ IF isComplete(after[c])
                         THEN /\ localSyncs' = localSyncs \ {c}
                              /\ realtimeSyncs' = realtimeSyncs \ {c}
                         ELSE UNCHANGED <<localSyncs, realtimeSyncs>>
    /\ UNCHANGED <<bloomCheck, pg, run, sources, hist, gen, counters>>

\* case "reorg": latestBlock is moved to the common ancestor and the
\* notification raised; the store is not written (pruneByBlock is commented out).
RealtimeReorg(c) ==
    /\ c \in realtimeSyncs
    /\ Faults(counters) < MaxFaults
    /\ \E b \in chain[c].finalized..(chain[c].head - 1) :
          LET after == [local EXCEPT ![c].latestOverride = b]
          IN  /\ chain' = [chain EXCEPT ![c].head = b,
                                        ![c].branch = @ + 1,
                                        ![c].branches = SubSeq(@, 1, b + 1),
                                        ![c].ancestor = b]
              /\ local' = after
              /\ raised' =
                    IF CheckpointThrows("latest", sources, after, hist, localSyncs)
                    THEN <<>>
                    ELSE Append(<<>>,
                            [type |-> "reorg", events |-> <<>>,
                             checkpoint |-> getChainsCheckpoint(
                                 "latest", sources, after, hist)])
    /\ counters' = [counters EXCEPT !.reorgs = @ + 1]
    /\ UNCHANGED <<bloomCheck, pg, run, sources, syncStore, hist, localSyncs, realtimeSyncs, gen>>

(***************************************************************************)
(* A new process on the same store: createSync with the same sources.      *)
(***************************************************************************)
Restart ==
    /\ Faults(counters) < MaxFaults
    /\ gen.pc # "idle"
    /\ syncStore' = CompactIntervals(syncStore, sources)
    /\ local' = createSyncLocal(sources, [c \in Networks(sources) |-> chain[c].finalized])
    /\ hist' = createSyncHist(syncStore, sources)
    /\ localSyncs' = Networks(sources)
    /\ realtimeSyncs' = {}
    /\ chain' = [c \in Networks(sources) |->
                    NewFollower(chain[c].finalized, chain[c].branch, chain[c].branches)]
    /\ gen' = GenIdle
    /\ raised' = <<>>
    /\ counters' = [counters EXCEPT !.restarts = @ + 1]
    /\ UNCHANGED <<bloomCheck, pg, run, sources>>

Next ==
    \/ GetEvents
    \/ RetryGetEvents
    \/ \E c \in Networks(sources) : LocalSyncSync(c)
    \/ \E c \in Networks(sources) : LocalSyncSyncRejected(c)
    \/ AfterSync
    \/ Page
    \/ PageEnd
    \/ StartRealtime
    \/ \E c \in Networks(sources) : RealtimeBlock(c)
    \/ \E c \in Networks(sources) : RealtimeFinalize(c)
    \/ \E c \in Networks(sources) : RealtimeReorg(c)
    \/ Restart

Spec == Init /\ [][Next]_vars

(***************************************************************************)
(* SpecPage                                                                *)
(***************************************************************************)
InitPage ==
    /\ PgInit
    /\ run = RunInit
    /\ sources = <<>>
    /\ syncStore = EmptyStore
    /\ local = <<>>
    /\ hist = <<>>
    /\ localSyncs = {}
    /\ realtimeSyncs = {}
    /\ chain = <<>>
    /\ gen = GenIdle
    /\ raised = <<>>
    /\ counters = [failures |-> 0, reorgs |-> 0, restarts |-> 0]
    /\ bloomCheck = BloomIdle

NextPage == PgCall \/ PgStop

SpecPage == InitPage /\ [][NextPage]_vars

(***************************************************************************)
(* SpecHistorical: the historical stream alone, consumed to its end.  The  *)
(* consumer keeps pulling (`for await`), so the generator always takes its *)
(* next step, and every sync() call it awaits settles: no chain stays      *)
(* pending forever.                                                        *)
(***************************************************************************)
NextHistorical ==
    \/ GetEvents
    \/ RetryGetEvents
    \/ \E c \in Networks(sources) : LocalSyncSync(c)
    \/ \E c \in Networks(sources) : LocalSyncSyncRejected(c)
    \/ AfterSync
    \/ Page
    \/ PageEnd

SpecHistorical ==
    /\ Init
    /\ [][NextHistorical]_vars
    /\ WF_vars(GetEvents)
    /\ WF_vars(RetryGetEvents)
    /\ WF_vars(AfterSync)
    /\ WF_vars(Page)
    /\ WF_vars(PageEnd)
    /\ \A c \in Chains : []<>(c \notin gen.pending)

(***************************************************************************)
(* Properties of SyncStore.getEvents (SpecPage).                           *)
(***************************************************************************)
PgMatching(from) == SelectEvents(pg.table, pg.filters, from, pg.to)

\* C3: paginating getEvents with from := cursor until from = to returns
\* every row of the filters with checkpoint in (from0, to] exactly once and
\* in order, for every limit, ties on the page boundary included.
C3_PaginationExactlyOnce ==
    pg.phase = "done" =>
        /\ Len(pg.out) = Cardinality(PgMatching(pg.from0))
        /\ \A r \in PgMatching(pg.from0) : \E i \in 1..Len(pg.out) : pg.out[i] = r
        /\ \A i, j \in 1..Len(pg.out) : pg.out[i] = pg.out[j] => i = j

\* C4: one getEvents call returns the first (at most limit) matching rows
\* in (checkpoint, filter_id) order, and its cursor is `to` when fewer than
\* limit rows came back, else the checkpoint of the last row.
C4_GetEventsPage ==
    pg.phase # "off" /\ pg.calls > 0 =>
        LET ev == pg.lastEvents
            matching == PgMatching(pg.lastFrom)
            Before(a, b) ==
                \/ a.checkpoint < b.checkpoint
                \/ a.checkpoint = b.checkpoint /\ a.filter_id < b.filter_id
        IN  /\ Len(ev) = Min2(pg.limit, Cardinality(matching))
            /\ \A i \in 1..Len(ev) : ev[i] \in matching
            /\ \A i, j \in 1..Len(ev) : i < j => Before(ev[i], ev[j])
            /\ \A m \in matching :
                  (\A i \in 1..Len(ev) : ev[i] # m) =>
                      \A i \in 1..Len(ev) : Before(ev[i], m)
            /\ pg.lastCursor = IF Len(ev) < pg.limit THEN pg.to
                               ELSE ev[Len(ev)].checkpoint

\* C4 witness: a full page that leaves matching rows behind, its cursor on
\* the last row's checkpoint and short of `to`.
C4_Witness ==
    /\ pg.phase # "off"
    /\ pg.calls > 0
    /\ Len(pg.lastEvents) = pg.limit
    /\ Cardinality(PgMatching(pg.lastFrom)) > pg.limit
    /\ pg.lastCursor = pg.lastEvents[pg.limit].checkpoint
    /\ pg.lastCursor < pg.to

(***************************************************************************)
(* Properties of the historical stream (Spec, SpecHistorical).             *)
(***************************************************************************)
\* C1: the concatenation of the batches getEvents() yields is non-decreasing
\* in checkpoint, across all chains and whatever the order of their syncs.
C1_YieldedInCheckpointOrder ==
    \A i, j \in 1..Len(gen.yielded) :
        i < j => gen.yielded[i].checkpoint <= gen.yielded[j].checkpoint

\* C1 witness: a completed stream that interleaves two chains: an event of
\* one chain between two events of the other.
C1_Witness ==
    /\ gen.pc = "done"
    /\ \E i, j, k \in 1..Len(gen.yielded) :
          /\ i < j /\ j < k
          /\ gen.yielded[i].chain_id = gen.yielded[k].chain_id
          /\ gen.yielded[i].chain_id # gen.yielded[j].chain_id

\* C2: when getEvents() completes, every event row of the sources' filters
\* with checkpoint in (start, end] has been yielded exactly once.
C2_YieldedExactlyOnce ==
    gen.pc = "done" /\ ~gen.realtime /\ counters.failures = 0 /\ counters.restarts = 0 =>
        \A r \in SelectEvents(syncStore.event, SourceIds(sources), gen.start, gen.end) :
            Cardinality({i \in 1..Len(gen.yielded) : gen.yielded[i] = r}) = 1

\* C5: the getEvents() generator eventually completes, for every
\* configuration of chains, when every sync() call it awaits returns (no
\* RPC request is rejected).
C5_GeneratorCompletes == <>(gen.pc = "done" \/ counters.failures > 0)

(***************************************************************************)
(* Properties of the sync store and the historical sync (Spec).            *)
(***************************************************************************)
\* The canonical objects of block n of chain c that match filter F.
MatchingLogs(F, n) ==
    {l \in WorldLogs(F.chainId, n, CanonBranch(chain, F.chainId, n)) :
        MatchesAddress(F, SyncLog(F.chainId, n, CanonBranch(chain, F.chainId, n), l))}

InFilterRange(F, n) ==
    n >= F.fromBlock /\ (F.toBlock # Undefined => n <= F.toBlock)

LogComplete(F, n) ==
    LET k == CanonBranch(chain, F.chainId, n)
    IN  \A l \in MatchingLogs(F, n) :
            /\ SyncLog(F.chainId, n, k, l) \in syncStore.log
            /\ SyncBlock(F.chainId, n, k) \in syncStore.block
            /\ SyncTransaction(F.chainId, n, k, l[1]) \in syncStore.transaction
            /\ \E e \in syncStore.event :
                  /\ e.filter_id = F.id
                  /\ e.block_hash = BlockHash(F.chainId, n, k)
                  /\ e.log_index = l[1]

BlockComplete(F, n) ==
    LET k == CanonBranch(chain, F.chainId, n)
    IN  (n - F.offset) % F.interval = 0 =>
            /\ SyncBlock(F.chainId, n, k) \in syncStore.block
            /\ \E e \in syncStore.event :
                  e.filter_id = F.id /\ e.block_hash = BlockHash(F.chainId, n, k)

\* C6: if an interval row [a, b] exists for filter F, every log or block
\* matching F in [a, b] (within F's fromBlock/toBlock) is in the raw tables
\* and has its row in the event table.
C6_IntervalImpliesData ==
    \A r \in syncStore.interval :
        LET F == FilterById(sources, r.filter_id)
        IN  \A n \in r.from..r.to :
                InFilterRange(F, n) /\ n <= chain[F.chainId].head =>
                    IF F.type = "log" THEN LogComplete(F, n) ELSE BlockComplete(F, n)

\* The blocks of (requested window /\ filter range) the cache does not cover.
Uncached(F, c) ==
    IntervalBlocks({SourceInterval(F, hist[c].window)})
        \ IntervalBlocks(hist[c].intervalsCache[F.id])

HistoricalRange(F) ==
    {n \in F.fromBlock..local[F.chainId].finalized0 : InFilterRange(F, n)}

\* C8: after a sync() call aborted by an RPC error, further sync() calls on
\* the same instances still complete every range from the start block to
\* the finalized block: when the stream is drained every filter's interval
\* rows cover its whole historical range.
C8_RetryCompletesRange ==
    gen.pc = "done" /\ ~gen.realtime /\ counters.failures > 0 /\ counters.restarts = 0 =>
        \A F \in Range(sources) :
            HistoricalRange(F) \subseteq IntervalBlocks(FilterIntervals(syncStore.interval, F.id))

(***************************************************************************)
(* Properties of the realtime `reorg` handler (Spec).                      *)
(***************************************************************************)
RowsAbove(c, b) ==
    {r \in syncStore.block : r.chain_id = c /\ r.number > b}
    \cup {r \in syncStore.log \cup syncStore.transaction \cup syncStore.event :
            r.chain_id = c /\ r.block_number > b}

\* C9: once a `reorg` with common ancestor b has been handled for chain C,
\* no row of the block, log, transaction or event tables has chain_id = C
\* and a block number above b.
C9_ReorgPrunesRows ==
    \A c \in Networks(sources) :
        chain[c].ancestor # Undefined => RowsAbove(c, chain[c].ancestor) = {}

MaxEmit == 2

EventTypes == {"block", "finalize", "reorg"}

QueueConcurrency == 1

Token(c, n, type) == [chain |-> c, n |-> n, type |-> type]

\* args.onRealtimeEvent: realtimeQueue.add(realtimeEvent)
onRealtimeEvent(r, token) ==
    [r EXCEPT !.raisedLog = Append(@, token), !.queue = Append(@, token)]

\* for await (const events of sync.getEvents()) has ended; the routine awaits
\* flush, publish and createIndexes.
RunHistoricalDone ==
    /\ run.start = "historical"
    /\ run' = [run EXCEPT !.start = "flush"]
    /\ UNCHANGED <<bloomCheck, pg, sources, syncStore, hist, local, localSyncs, realtimeSyncs,
                   chain, gen, raised, counters>>

\* sync.startRealtime(): a follower is created and started for every network;
\* the routine then awaits metadataStore.setStatus.
RunStartRealtime ==
    /\ run.start = "flush"
    /\ run' = [run EXCEPT !.start = "setStatus", !.followers = Chains]
    /\ UNCHANGED <<bloomCheck, pg, sources, syncStore, hist, local, localSyncs, realtimeSyncs,
                   chain, gen, raised, counters>>

\* start() returns: startPromise is resolved.
RunStartDone ==
    /\ run.start = "setStatus"
    /\ run' = [run EXCEPT !.start = "done"]
    /\ UNCHANGED <<bloomCheck, pg, sources, syncStore, hist, local, localSyncs, realtimeSyncs,
                   chain, gen, raised, counters>>

\* A follower emits its next event: it calls onEvent, the coordinator's async
\* handler, which runs to its first await.  The `reorg` case has no await:
\* it raises its notification within the call.  The follower does not wait
\* for the promise the handler returns.
FollowerEmit(c, type) ==
    /\ c \in run.followers
    /\ Len(run.emitted) < MaxEmit
    /\ LET token == Token(c, Len(run.emitted) + 1, type)
           emitted == [run EXCEPT !.emitted = Append(@, token)]
       IN  run' = CASE type = "reorg" -> onRealtimeEvent(emitted, token)
                    [] type = "block" ->
                         [emitted EXCEPT !.handlers = @ \cup
                             {[token |-> token, pc |-> "populateEvents"]}]
                    [] OTHER ->
                         [emitted EXCEPT !.handlers = @ \cup
                             {[token |-> token, pc |-> "insertInterval"]}]
    /\ UNCHANGED <<bloomCheck, pg, sources, syncStore, hist, local, localSyncs, realtimeSyncs,
                   chain, gen, raised, counters>>

\* A suspended handler is resumed when the store operation it awaits is done.
\* block: after populateEvents, from === to ends it, else it awaits getEvents;
\* after getEvents it raises the batch.  finalize: after insertInterval it
\* raises the notification when checkpoint > prev.
HandlerResume(h, raises) ==
    /\ h \in run.handlers
    /\ LET rest == [run EXCEPT !.handlers = @ \ {h}]
       IN  run' = CASE h.pc = "populateEvents" /\ raises ->
                         [rest EXCEPT !.handlers = @ \cup {[h EXCEPT !.pc = "getEvents"]}]
                    [] h.pc = "populateEvents" /\ ~raises -> rest
                    [] h.pc = "getEvents" -> onRealtimeEvent(rest, h.token)
                    [] h.pc = "insertInterval" /\ raises -> onRealtimeEvent(rest, h.token)
                    [] OTHER -> rest
    /\ UNCHANGED <<bloomCheck, pg, sources, syncStore, hist, local, localSyncs, realtimeSyncs,
                   chain, gen, raised, counters>>

\* A plausible slip: the queue starts a task whenever one is waiting.
WorkerCanStartUnbounded(r) ==
    /\ r.queue # <<>>
    /\ ~r.paused

\* createQueue({concurrency: 1}): the next task is started when the queue is
\* not paused and fewer than `concurrency` tasks are in flight.
WorkerCanStart(r) ==
    /\ r.queue # <<>>
    /\ ~r.paused
    /\ Cardinality(r.tasks) < QueueConcurrency

\* The worker is called with the event at the head of the queue and awaits
\* handleEvents, handleReorg or handleFinalize.
WorkerStart ==
    /\ WorkerCanStart(run)
    /\ run' = [run EXCEPT !.queue = Tail(@),
                          !.tasks = @ \cup {Head(run.queue)},
                          !.started = Append(@, Head(run.queue))]
    /\ UNCHANGED <<bloomCheck, pg, sources, syncStore, hist, local, localSyncs, realtimeSyncs,
                   chain, gen, raised, counters>>

\* The worker's promise for one event resolves.
WorkerFinish ==
    /\ \E t \in run.tasks : run' = [run EXCEPT !.tasks = @ \ {t}]
    /\ UNCHANGED <<bloomCheck, pg, sources, syncStore, hist, local, localSyncs, realtimeSyncs,
                   chain, gen, raised, counters>>

\* The shutdown function is called: indexingService.kill(); sync.kill() kills
\* every follower in realtimeSyncs.  Nothing stops the start routine.
ShutdownKill ==
    /\ run.shutdown = "idle"
    /\ run' = [run EXCEPT !.shutdown = "syncKill", !.killed = TRUE, !.followers = {}]
    /\ UNCHANGED <<bloomCheck, pg, sources, syncStore, hist, local, localSyncs, realtimeSyncs,
                   chain, gen, raised, counters>>

\* realtimeQueue.pause(); realtimeQueue.clear();
ShutdownPause ==
    /\ run.shutdown = "syncKill"
    /\ run' = [run EXCEPT !.shutdown = "onIdle", !.paused = TRUE, !.queue = <<>>]
    /\ UNCHANGED <<bloomCheck, pg, sources, syncStore, hist, local, localSyncs, realtimeSyncs,
                   chain, gen, raised, counters>>

\* await realtimeQueue.onIdle(): the task in flight has finished.
ShutdownOnIdle ==
    /\ run.shutdown = "onIdle"
    /\ run.tasks = {}
    /\ run' = [run EXCEPT !.shutdown = "startPromise"]
    /\ UNCHANGED <<bloomCheck, pg, sources, syncStore, hist, local, localSyncs, realtimeSyncs,
                   chain, gen, raised, counters>>

\* await startPromise
ShutdownStartPromise ==
    /\ run.shutdown = "startPromise"
    /\ run.start = "done"
    /\ run' = [run EXCEPT !.shutdown = "databaseKill"]
    /\ UNCHANGED <<bloomCheck, pg, sources, syncStore, hist, local, localSyncs, realtimeSyncs,
                   chain, gen, raised, counters>>

\* await database.kill(); the shutdown function returns.
ShutdownDatabaseKill ==
    /\ run.shutdown = "databaseKill"
    /\ run' = [run EXCEPT !.shutdown = "returned", !.dbKilled = TRUE]
    /\ UNCHANGED <<bloomCheck, pg, sources, syncStore, hist, local, localSyncs, realtimeSyncs,
                   chain, gen, raised, counters>>

InitRun ==
    /\ pg = PgIdle
    /\ run = RunInit
    /\ sources = <<>>
    /\ syncStore = EmptyStore
    /\ local = <<>>
    /\ hist = <<>>
    /\ localSyncs = {}
    /\ realtimeSyncs = {}
    /\ chain = <<>>
    /\ gen = GenIdle
    /\ raised = <<>>
    /\ counters = [failures |-> 0, reorgs |-> 0, restarts |-> 0]
    /\ bloomCheck = BloomIdle

NextRun ==
    \/ RunHistoricalDone
    \/ RunStartRealtime
    \/ RunStartDone
    \/ \E c \in Chains, type \in EventTypes : FollowerEmit(c, type)
    \/ \E h \in run.handlers, raises \in BOOLEAN : HandlerResume(h, raises)
    \/ WorkerStart
    \/ WorkerFinish
    \/ ShutdownKill
    \/ ShutdownPause
    \/ ShutdownOnIdle
    \/ ShutdownStartPromise
    \/ ShutdownDatabaseKill

SpecRun == InitRun /\ [][NextRun]_vars

(***************************************************************************)
(* Realtime notifications                                                  *)
(***************************************************************************)
\* decodeCheckpoint: the fields of an encoded checkpoint.
decodeCheckpoint(cp) ==
    [blockTimestamp |-> (cp \div (Radix * Radix * Radix * Radix * Radix)) % Radix,
     chainId |-> (cp \div (Radix * Radix * Radix * Radix)) % Radix,
     blockNumber |-> (cp \div (Radix * Radix * Radix)) % Radix,
     transactionIndex |-> (cp \div (Radix * Radix)) % Radix,
     eventType |-> (cp \div Radix) % Radix,
     eventIndex |-> cp % Radix]

\* The step is the handling of a `reorg` event of chain c.
ReorgStep(c) ==
    /\ c \in realtimeSyncs
    /\ counters'.reorgs = counters.reorgs + 1
    /\ chain'[c].ancestor # Undefined
    /\ chain'[c].branch = chain[c].branch + 1

\* C11: handling a `reorg` of chain C with common ancestor b raises one
\* {type: "reorg", checkpoint} notification whose checkpoint's blockNumber is b.
C11_ReorgCheckpointIsAncestor ==
    [][\A c \in Networks(sources) :
          ReorgStep(c) =>
              /\ Len(raised') = 1
              /\ raised'[1].type = "reorg"
              /\ decodeCheckpoint(raised'[1].checkpoint).blockNumber = chain'[c].ancestor]_vars

\* The events of a sequence of notifications, in the order they were raised.
RECURSIVE RaisedEvents(_)
RaisedEvents(ns) ==
    IF ns = <<>> THEN <<>> ELSE Head(ns).events \o RaisedEvents(Tail(ns))

\* The step is the handling of a `block` event of chain c that found the
\* latest block of every chain.
BlockStep(c) ==
    /\ c \in realtimeSyncs
    /\ chain'[c].head = chain[c].head + 1
    /\ ~CheckpointThrows("latest", sources, local, hist, localSyncs)

\* C12: handling a `block` event of chain C raises, in {type: "block"}
\* notifications, exactly the stored events with checkpoint in (from, to], in
\* checkpoint order: from is the minimum latest checkpoint before
\* latestBlock is set to the new block, to the one after.
C12_BlockRaisesStoredEvents ==
    [][\A c \in Networks(sources) :
          BlockStep(c) =>
              /\ \A i \in 1..Len(raised') : raised'[i].type = "block"
              /\ RaisedEvents(raised') =
                    SortRows(SelectEvents(syncStore'.event, SourceIds(sources),
                                getChainsCheckpoint("latest", sources, local, hist),
                                getChainsCheckpoint("latest", sources, local', hist)))]_vars

\* The step is the handling of a `finalize` event of chain c that moves its
\* finalized block.
FinalizeStep(c) ==
    /\ c \in realtimeSyncs
    /\ gen'.realtime
    /\ local'[c].finalizedBlock > local[c].finalizedBlock

\* The interval row of filter F for the blocks lo..hi.
IntervalRow(F, lo, hi) ==
    [filter_id |-> F.id, chain_id |-> F.chainId, from |-> lo, to |-> hi]

\* C13: a `finalize` event that moves chain C's finalized block from p to f
\* leaves, for each of C's filters, the events of [p+1, f] populated, and the
\* interval row it inserts is exactly [p+1, f].
C13_FinalizeInsertsNewRange ==
    [][\A c \in Networks(sources) :
          FinalizeStep(c) =>
              \A F \in Range(ChainSources(sources, c)) :
                  LET p == local[c].finalizedBlock
                      f == local'[c].finalizedBlock
                  IN  /\ populateEvents(syncStore', F, <<p + 1, f>>).event = syncStore'.event
                      /\ IntervalRow(F, p + 1, f) \in syncStore'.interval
                      /\ {r \in syncStore'.interval \ syncStore.interval :
                             r.filter_id = F.id} \subseteq {IntervalRow(F, p + 1, f)}]_vars

\* A chain has been dropped from the coordinator because it is complete.
ChainDropped == gen.realtime /\ localSyncs # Networks(sources)

\* C15: once a complete chain has been dropped, every later `block`,
\* `finalize` and `reorg` event of a remaining chain is still handled to its
\* end: latestBlock and finalizedBlock are updated and the reorg notification
\* is raised.
C15_RemainingChainsHandled ==
    [][\A c \in Networks(sources) :
          ChainDropped /\ c \in realtimeSyncs =>
              /\ chain'[c].head = chain[c].head + 1 =>
                    local'[c].latestOverride = chain'[c].head
              /\ gen'.realtime /\ chain'[c].finalized > chain[c].finalized =>
                    local'[c].finalizedBlock = chain'[c].finalized
              /\ ReorgStep(c) =>
                    Len(raised') = 1 /\ raised'[1].type = "reorg"]_vars

\* The minimum finalized checkpoint of the chains in keys, fin[c] being the
\* finalized block of chain c.
MinFinalizedCheckpoint(fin, keys) ==
    SetMin({encodeCheckpoint([maxCheckpoint EXCEPT
                                 !.blockTimestamp = Timestamp(c, fin[c]),
                                 !.chainId = c,
                                 !.blockNumber = fin[c]]) : c \in keys})

\* C14: a `finalize` event raises a {type: "finalize", checkpoint}
\* notification if and only if the minimum finalized checkpoint of the active
\* chains strictly increased, and the notification carries the new minimum
\* (so the finalize checkpoints raised are strictly increasing).
C14_FinalizeRaisedIffMinimumMoved ==
    [][\A c \in Networks(sources) :
          c \in realtimeSyncs /\ gen'.realtime /\ chain'[c].finalized > chain[c].finalized =>
              LET prev == MinFinalizedCheckpoint(
                              [x \in localSyncs |-> local[x].finalizedBlock], localSyncs)
                  new == MinFinalizedCheckpoint(
                              [x \in localSyncs |-> IF x = c THEN chain'[c].finalized
                                                    ELSE local[x].finalizedBlock], localSyncs)
              IN  IF new > prev
                  THEN raised' = <<[type |-> "finalize", events |-> <<>>, checkpoint |-> new]>>
                  ELSE raised' = <<>>]_vars

(***************************************************************************)
(* Properties of run() (SpecRun).                                          *)
(***************************************************************************)
\* C16: within a chain, the handling of a realtime event is complete before
\* the handling of the chain's next event begins, and the notifications reach
\* onRealtimeEvent in the order the follower emitted the events.
C16_HandledInEmissionOrder ==
    /\ \A g, h \in run.handlers : g.token.chain = h.token.chain => g = h
    /\ \A i, j \in 1..Len(run.raisedLog) :
          i < j /\ run.raisedLog[i].chain = run.raisedLog[j].chain =>
              run.raisedLog[i].n < run.raisedLog[j].n

\* The position of a raised event in the order of the onRealtimeEvent calls.
RaisedPosition(t) == CHOOSE k \in 1..Len(run.raisedLog) : run.raisedLog[k] = t

\* C17: the worker handles the raised realtime events one at a time, each to
\* completion, in the order they were raised: at most one task is in flight,
\* it is the last one started, tasks are started in the order of the
\* onRealtimeEvent calls, and until the queue is cleared none is passed over.
C17_WorkerSerialInRaisedOrder ==
    /\ Cardinality(run.tasks) <= 1
    /\ run.tasks # {} => run.tasks = {run.started[Len(run.started)]}
    /\ \A i, j \in 1..Len(run.started) :
          i < j => RaisedPosition(run.started[i]) < RaisedPosition(run.started[j])
    /\ run.shutdown \in {"idle", "syncKill"} => run.started \o run.queue = run.raisedLog

\* C17 witness: a reorg waits in the queue while the worker is still handling
\* the block batch raised before it.
C17_Witness ==
    /\ \E t \in run.tasks : t.type = "block"
    /\ run.queue # <<>>
    /\ Head(run.queue).type = "reorg"
    /\ Len(run.started) = 1

\* C18: database.kill() is never invoked while a realtime worker task is in
\* flight or the start routine is still running, and when the shutdown
\* function has returned no realtime event is queued or in flight.
C18_ShutdownDrainsQueue ==
    /\ run.dbKilled => run.tasks = {} /\ run.start = "done"
    /\ run.shutdown = "returned" => run.queue = <<>> /\ run.tasks = {}

\* C19: once the coordinator's kill() has been called no follower is running,
\* and none is started afterwards.
C19_NoFollowerAfterKill ==
    run.killed => run.followers = {}

(***************************************************************************)
(* Properties of SyncStore.populateEvents (Spec).                          *)
(***************************************************************************)
\* The intervals populateEvents is tried with for filter F: every single
\* block (the realtime calls) and the whole range of the chain.
PopulateIntervals(F) ==
    {<<n, n>> : n \in 0..MaxHead(F.chainId)} \cup {<<0, MaxHead(F.chainId)>>}

\* C20: populateEvents(F, I) is idempotent: on unchanged raw tables a
\* repeated call leaves the event table as the first call left it, with one
\* row per (filter_id, checkpoint) and no row deleted.
C20_PopulateEventsIdempotent ==
    \A F \in Range(sources) : \A I \in PopulateIntervals(F) :
        LET once == populateEvents(syncStore, F, I)
            twice == populateEvents(once, F, I)
        IN  /\ twice.event = once.event
            /\ syncStore.event \subseteq once.event
            /\ \A a, b \in once.event :
                  a.filter_id = b.filter_id /\ a.checkpoint = b.checkpoint => a = b

\* C20 witness: after a reorg the raw tables hold two logs of one filter with
\* the same checkpoint, one of them already in the event table, so a call
\* populateEvents(F, I) selects rows that conflict.
C20_Witness ==
    \E F \in Range(sources) :
        /\ F.type = "log"
        /\ \E r, o \in LogEventRows(syncStore, F, <<0, MaxHead(F.chainId)>>) :
              /\ r.checkpoint = o.checkpoint
              /\ r.block_hash # o.block_hash
              /\ r \in syncStore.event

\* The blocks of F's chain for which the raw tables hold an item F matches:
\* a log with its block and transaction rows, or a block on F's grid.
Materializable(F) ==
    IF F.type = "log"
    THEN {l.block_number : l \in {x \in syncStore.log :
            /\ x.chain_id = F.chainId
            /\ MatchesAddress(F, x)
            /\ \E b \in syncStore.block : b.hash = x.block_hash /\ b.chain_id = x.chain_id
            /\ \E t \in syncStore.transaction :
                  t.hash = x.transaction_hash /\ t.chain_id = x.chain_id}}
    ELSE {b.number : b \in {x \in syncStore.block :
            x.chain_id = F.chainId /\ (x.number - F.offset) % F.interval = 0}}

\* C21: populateEvents(F, [lo, hi]) materializes a matching item if and only
\* if its block number is in [max(lo, F.fromBlock), min(hi, F.toBlock)], and no
\* event row of F references a block outside [F.fromBlock, F.toBlock].
C21_PopulateEventsBounds ==
    \A F \in Range(sources) :
        /\ \A I \in PopulateIntervals(F) :
              LET lo == Max2(I[1], F.fromBlock)
                  hi == IF F.toBlock = Undefined THEN I[2] ELSE Min2(I[2], F.toBlock)
                  fresh == populateEvents([syncStore EXCEPT !.event = {}], F, I).event
              IN  {e.block_number : e \in fresh} = {n \in Materializable(F) : lo <= n /\ n <= hi}
        /\ \A e \in syncStore.event :
              e.filter_id = F.id =>
                  /\ e.block_number >= F.fromBlock
                  /\ F.toBlock # Undefined => e.block_number <= F.toBlock

\* C21 witness: the raw tables hold matching logs one block below fromBlock,
\* at fromBlock = toBlock and one block above, and the filter's only event
\* rows are those of the block at the bound.
C21_Witness ==
    \E F \in Range(sources) :
        /\ F.toBlock # Undefined /\ F.fromBlock > 0
        /\ {F.fromBlock - 1, F.fromBlock, F.toBlock, F.toBlock + 1} \subseteq Materializable(F)
        /\ {e.block_number : e \in {x \in syncStore.event : x.filter_id = F.id}}
              = F.fromBlock..F.toBlock

(***************************************************************************)
(* Properties of the historical sync (Spec).                               *)
(***************************************************************************)
\* The last sync() call of chain c completed source F.
CompletedSource(F, c) ==
    \E call \in hist[c].calls : call.op = "insertInterval" /\ call.filter = F.id

\* C22: for a block filter with interval n and offset k, a sync() call over
\* a window fetches exactly the blocks b of the window, cut to the filter's
\* range, with (b - k) mod n = 0, and materializes them.
C22_BlockFilterAlignedBlocks ==
    \A c \in Networks(sources) : \A F \in Range(ChainSources(sources, c)) :
        F.type = "block" /\ CompletedSource(F, c) /\ Len(ChainSources(sources, c)) = 1 =>
            LET aligned == {b \in Uncached(F, c) : (b - F.offset) % F.interval = 0}
            IN  /\ {q.from : q \in hist[c].rpc} = aligned
                /\ \A b \in aligned :
                      \E e \in syncStore.event : e.filter_id = F.id /\ e.block_number = b

(***************************************************************************)
(* Properties of the sync store's raw tables (Spec).                       *)
(***************************************************************************)
\* The same row under the other chain id.
OtherChain(r) == [r EXCEPT !.chain_id = 3 - @]

\* The receipt of a stored transaction.
ReceiptOf(t) == [hash |-> t.hash, chain_id |-> t.chain_id, block_number |-> t.block_number]

\* C23: insertBlock, insertLogs, insertTransaction and
\* insertTransactionReceipt keep the existing row: inserting a row whose key
\* is stored, whatever its other columns, leaves the table unchanged, and the
\* same hash under another chain_id is a row of its own.
C23_InsertKeepsExisting ==
    /\ \A b \in syncStore.block :
          /\ insertBlock(syncStore, [b EXCEPT !.timestamp = @ + 1]) = syncStore
          /\ insertBlock(syncStore, OtherChain(b)).block = syncStore.block \cup {OtherChain(b)}
    /\ \A l \in syncStore.log :
          /\ insertLogs(syncStore, {[l EXCEPT !.address = "c"]}) = syncStore
          /\ insertLogs(syncStore, {OtherChain(l)}).log = syncStore.log \cup {OtherChain(l)}
    /\ \A t \in syncStore.transaction :
          /\ insertTransaction(syncStore, [t EXCEPT !.transaction_index = @ + 1]) = syncStore
          /\ insertTransaction(syncStore, OtherChain(t)).transaction
                = syncStore.transaction \cup {OtherChain(t)}
          /\ LET once == insertTransactionReceipt(syncStore, ReceiptOf(t))
             IN  /\ once.transaction_receipt = syncStore.transaction_receipt \cup {ReceiptOf(t)}
                 /\ insertTransactionReceipt(once, [ReceiptOf(t) EXCEPT !.block_number = @ + 1])
                       = once
                 /\ insertTransactionReceipt(once, OtherChain(ReceiptOf(t))).transaction_receipt
                       = once.transaction_receipt \cup {OtherChain(ReceiptOf(t))}

\* C23 witness: with no fault, a sync() call has requested again the block
\* its window starts at, which the previous window had stored with its logs
\* and transactions; the block table holds it once.
C23_Witness ==
    /\ Faults(counters) = 0
    /\ \E c \in Networks(sources) : \E q \in hist[c].rpc :
          /\ q.method = "eth_getBlockByNumber"
          /\ q.from = hist[c].window[1]
          /\ hist[c].window[1] > 0
          /\ Cardinality({b \in syncStore.block : b.chain_id = c /\ b.number = q.from}) = 1
          /\ \E l \in syncStore.log : l.chain_id = c /\ l.block_number = q.from
          /\ \E t \in syncStore.transaction : t.chain_id = c /\ t.block_number = q.from

(***************************************************************************)
(* Properties of the interval table (Spec).                                *)
(***************************************************************************)
\* C24: getIntervals(F) returns strictly disjoint ranges whose union is the
\* union of the intervals inserted for F (none when nothing was inserted),
\* and the rows stored for F afterwards are exactly the ranges returned; the
\* rows of other filters are left alone.
C24_GetIntervalsMerges ==
    \A F \in Range(sources) :
        LET inserted == FilterIntervals(syncStore.interval, F.id)
            r == getIntervals(syncStore, F)
        IN  /\ IntervalBlocks(r.intervals) = IntervalBlocks(inserted)
            /\ \A a \in r.intervals : a[1] <= a[2]
            /\ \A a, b \in r.intervals : a # b => a[2] < b[1] \/ b[2] < a[1]
            /\ \A k \in 1..(Len(SortIntervals(r.intervals)) - 1) :
                  SortIntervals(r.intervals)[k][2] < SortIntervals(r.intervals)[k + 1][1]
            /\ FilterIntervals(r.db.interval, F.id) = r.intervals
            /\ {x \in r.db.interval : x.filter_id # F.id}
                  = {x \in syncStore.interval : x.filter_id # F.id}
            /\ inserted = {} => r.intervals = {} /\ r.db = syncStore

\* C24 witness: a new process has read the intervals of a filter whose rows
\* overlapped (windows [0,2] and [2,3]); the store holds their union as one
\* row, which no insertInterval call writes.
C24_Witness ==
    /\ counters.restarts > 0
    /\ \E F \in Range(sources) :
          /\ F.fromBlock = 0
          /\ FilterIntervals(syncStore.interval, F.id) = {<<0, local[F.chainId].finalized0>>}
          /\ local[F.chainId].finalized0 > SyncStep(sources, F.chainId)

\* C25: after every insertInterval and getIntervals the interval rows of a
\* filter form a minimal disjoint union: no two rows of one filter overlap
\* or are adjacent.
C25_IntervalRowsMinimal ==
    \A x, y \in syncStore.interval :
        x # y /\ x.filter_id = y.filter_id /\ x.chain_id = y.chain_id
            => x.to + 1 < y.from \/ y.to + 1 < x.from

(***************************************************************************)
(* SpecFilterId: filter ids of filter objects (sync/filter.ts).  A filter   *)
(* object is the sequence of its <<key, value>> properties in insertion    *)
(* order, which is the order JSON.stringify writes them in.                *)
(***************************************************************************)
FilterKeys == {"chainId", "address", "fromBlock"}

\* Every order of the three keys.
KeyOrders ==
    {o \in [1..3 -> FilterKeys] : {o[k] : k \in 1..3} = FilterKeys}

FilterValues ==
    [chainId : {1}, address : {"a", "A"}, fromBlock : {0, 1}]

\* The filter objects a configuration may hold: the same properties written
\* in any order, with or without an explicit `toBlock: undefined`.
FilterObjects ==
    LET plain == {[k \in 1..3 |-> <<o[k], v[o[k]]>>] : o \in KeyOrders, v \in FilterValues}
    IN  plain \cup {Append(obj, <<"toBlock", Undefined>>) : obj \in plain}

\* `undefined` as the value of a property.
UndefinedValue(key) == IF key = "address" THEN NoAddress ELSE Undefined

\* JSON.stringify(filter): the properties in insertion order, those whose
\* value is undefined left out.
JSONstringify(filter) == SelectSeq(filter, LAMBDA p : p[2] # UndefinedValue(p[1]))

\* getFilterId: `${type}_${JSON.stringify(filter)}`.
getFilterId(type, filter) == <<type>> \o JSONstringify(filter)

Property(filter, key) ==
    IF \E p \in Range(filter) : p[1] = key
    THEN (CHOOSE p \in Range(filter) : p[1] = key)[2]
    ELSE UndefinedValue(key)

\* The source the engine works with: the filter and its id column value.
SourceOf(filter) ==
    LogFilter(getFilterId("event", filter), Property(filter, "chainId"),
              Property(filter, "address"), Property(filter, "fromBlock"),
              Property(filter, "toBlock"))

FilterIdIntervals == {<<0, 1>>, <<2, 3>>}

\* A finished sync() of one source records its interval (part_006:344-348).
FilterIdInsertInterval ==
    /\ hist = <<>>
    /\ \E F \in Range(sources), interval \in FilterIdIntervals :
          syncStore' = insertInterval(syncStore, F, interval)
    /\ syncStore' # syncStore
    /\ UNCHANGED <<bloomCheck, pg, run, sources, hist, local, localSyncs, realtimeSyncs,
                   chain, gen, raised, counters>>

\* A new process creates its historical sync and reads every source's
\* cached intervals by filter id (part_006:63-90).
FilterIdCreateHistoricalSync ==
    /\ hist = <<>>
    /\ syncStore' = CompactIntervals(syncStore, sources)
    /\ hist' = createSyncHist(syncStore', sources)
    /\ UNCHANGED <<bloomCheck, pg, run, sources, local, localSyncs, realtimeSyncs,
                   chain, gen, raised, counters>>

InitFilterId ==
    /\ pg = PgIdle
    /\ run = RunInit
    /\ sources \in {<<SourceOf(a), SourceOf(b)>> : a, b \in FilterObjects}
    /\ syncStore = EmptyStore
    /\ local = <<>>
    /\ hist = <<>>
    /\ localSyncs = {}
    /\ realtimeSyncs = {}
    /\ chain = <<>>
    /\ gen = GenIdle
    /\ raised = <<>>
    /\ counters = [failures |-> 0, reorgs |-> 0, restarts |-> 0]
    /\ bloomCheck = BloomIdle

NextFilterId == FilterIdInsertInterval \/ FilterIdCreateHistoricalSync

SpecFilterId == InitFilterId /\ [][NextFilterId]_vars

\* The canonicalization rules: key order is immaterial, an undefined
\* property is the same as an absent one, addresses are lowercased.
Lowercase(address) == IF address = "A" THEN "a" ELSE address

Canonical(F) == [F EXCEPT !.id = 0, !.address = Lowercase(@)]

\* C26: two filters have the same filter id if and only if they are equal
\* under the canonicalization rules, and filters that are equal under them
\* read the same cached intervals.
C26_FilterIdCanonical ==
    \A F, G \in Range(sources) :
        /\ F.id = G.id <=> Canonical(F) = Canonical(G)
        /\ Canonical(F) = Canonical(G) /\ hist # <<>>
              => hist[F.chainId].intervalsCache[F.id] = hist[G.chainId].intervalsCache[G.id]

(***************************************************************************)
(* Properties of consecutive historical sync() calls (Spec).               *)
(***************************************************************************)
GetLogsRequests(h) == {q \in h.rpc : q.method = "eth_getLogs"}

\* C27: over consecutive LocalSync.sync() calls on a cold cache (no request
\* failed, no restart, realtime not started), an eth_getLogs request covers
\* no block that the previous call's request for the same filter covered,
\* and the interval rows of a filter are pairwise non-overlapping.
C27_NoBlockSyncedTwice ==
    [][(Faults(counters') = 0 /\ realtimeSyncs' = {}) =>
          /\ \A c \in DOMAIN hist :
                hist'[c] # hist[c] =>
                    \A p \in GetLogsRequests(hist[c]), q \in GetLogsRequests(hist'[c]) :
                        p.filter = q.filter => p.to < q.from \/ q.to < p.from
          /\ \A x, y \in syncStore'.interval :
                x # y /\ x.filter_id = y.filter_id /\ x.chain_id = y.chain_id
                    => x.to < y.from \/ y.to < x.from]_vars

C29_BlockCacheEmptyBetweenSyncs ==
    \A c \in DOMAIN hist : hist[c].blockCache = {}

\* C30: within one sync() invocation eth_getBlockByNumber is requested at
\* most once per block number, also when several sources need the block:
\* the later syncBlock calls reuse the promise in blockCache.
C30_BlockRequestedOnce ==
    \A c \in DOMAIN hist :
        LET requests == hist[c].blockRequests
        IN  /\ \A i, j \in 1..Len(requests) : i # j => requests[i] # requests[j]
            /\ Range(requests)
                  = {q.from : q \in {p \in hist[c].rpc : p.method = "eth_getBlockByNumber"}}

\* C30 witness: a completed sync() of two sources of one chain that both
\* matched a log of the same uncached block, which was requested once.
C30_Witness ==
    \E c \in DOMAIN hist :
        /\ Len(ChainSources(sources, c)) >= 2
        /\ \A F \in Range(ChainSources(sources, c)) : CompletedSource(F, c)
        /\ \E n \in Range(hist[c].blockRequests) :
              \A F \in Range(ChainSources(sources, c)) :
                  /\ n \in Uncached(F, c)
                  /\ \E l \in syncStore.log :
                        l.chain_id = c /\ l.block_number = n /\ MatchesAddress(F, l)

(***************************************************************************)
(* Properties of latestBlock and of the LocalSync cursor (Spec).           *)
(***************************************************************************)
\* The numbers of the blocks a chain's historical sync has ingested: the
\* block rows at or below the block that was finalized at startup.
Ingested(store, l, c) ==
    {b.number : b \in {x \in store.block : x.chain_id = c /\ x.number <= l[c].finalized0}}

\* C31: historicalSync.latestBlock is the ingested block with the highest
\* number, it is defined as soon as any block (block 0 included) has been
\* ingested, and its number never decreases.
C31_LatestBlockIsHighestIngested ==
    [][counters'.restarts = 0 =>
          \A c \in DOMAIN hist' :
              /\ Ingested(syncStore', local', c) # {} =>
                    /\ hist'[c].latestBlock # Undefined
                    /\ \A n \in Ingested(syncStore', local', c) : n <= hist'[c].latestBlock
                    /\ hist'[c].latestBlock \in Ingested(syncStore', local', c)
              /\ c \in DOMAIN hist /\ hist[c].latestBlock # Undefined =>
                    hist'[c].latestBlock # Undefined /\ hist'[c].latestBlock >= hist[c].latestBlock]_vars

(***************************************************************************)
(* SpecAddress: historical sync of one log source on chain 1 whose address *)
(* is a child-address filter.  The child filter ("address" intervals)      *)
(* watches the logs of the factory "b"; every such log announces the child *)
(* address "a".  The parent ("event" intervals) is configured with one of  *)
(* two topic lists, which changes its filter id and nothing else here.     *)
(***************************************************************************)
ChildFilter == LogFilter(10, 1, "b", 0, Undefined)

ParentFilter(topics) == LogFilter(10 + topics, 1, ChildFilter, 0, Undefined)

\* The windows sync() is called with.
AddressWindows == {<<0, 1>>, <<1, 2>>, <<2, 3>>, <<0, 3>>}

\* insertAddresses: a plain insert of one row per discovered address.
insertAddresses(db, filter, addresses) ==
    [db EXCEPT !.address = @ \cup
        {[filter_id |-> filter.id, chain_id |-> filter.chainId,
          block_number |-> a.blockNumber, address |-> a.address] : a \in addresses}]

getAddresses(db, filter) ==
    {r.address : r \in {x \in db.address :
                          x.chain_id = filter.chainId /\ x.filter_id = filter.id}}

\* A plausible slip: the child filter's cached intervals are not subtracted.
syncAddressNoCache(s, ch, c, filter, interval, intervalsCache, inverted) ==
    [s EXCEPT
        !.rpc = @ \cup {[method |-> "eth_getLogs", filter |-> filter.id,
                         from |-> interval[1], to |-> interval[2]]},
        !.db = insertInterval(
                  insertAddresses(@, filter,
                      {[address |-> "a", blockNumber |-> l.block_number] :
                          l \in RpcLogs(ch, c, filter, interval)}),
                  filter, interval),
        !.calls = @ \cup {[op |-> "insertInterval", filter |-> filter.id,
                           interval |-> interval]}]

\* syncAddress(filter, interval): for every required interval
\* syncLogAddressFilter requests the factory's logs and inserts the
\* addresses they announce; then the interval is marked complete.
syncAddress(s, ch, c, filter, interval, intervalsCache, inverted) ==
    LET required == intervalDifference({interval}, intervalsCache[filter.id], inverted)
    IN  IF required = {} THEN s
        ELSE [s EXCEPT
                !.rpc = @ \cup {[method |-> "eth_getLogs", filter |-> filter.id,
                                 from |-> iv[1], to |-> iv[2]] : iv \in required},
                !.db = insertInterval(
                          insertAddresses(@, filter,
                              {[address |-> "a", blockNumber |-> l.block_number] :
                                  l \in UNION {RpcLogs(ch, c, filter, iv) : iv \in required}}),
                          filter, interval),
                !.calls = @ \cup {[op |-> "insertInterval", filter |-> filter.id,
                                   interval |-> interval]}]

\* syncLogFilter for a filter whose address is a child-address filter: the
\* address is resolved by syncAddress first.
syncLogFilterChild(s, ch, c, filter, range, intervalsCache, inverted) ==
    LET s1 == syncAddress(s, ch, c, filter.address, range, intervalsCache, inverted)
        address == getAddresses(s1.db, filter.address)
        logs == {l \in RpcLogs(ch, c, [filter EXCEPT !.address = NoAddress], range) :
                    l.address \in address}
    IN  syncBlocks([s1 EXCEPT !.rpc = @ \cup {[method |-> "eth_getLogs", filter |-> filter.id,
                                               from |-> range[1], to |-> range[2]]},
                              !.db = insertLogs(@, logs)],
                   ch, c, {l.block_number : l \in logs},
                   {l.transaction_hash : l \in logs}, {})

RECURSIVE syncRequiredChild(_, _, _, _, _, _, _)
syncRequiredChild(s, ch, c, filter, required, intervalsCache, inverted) ==
    IF required = <<>> THEN s
    ELSE syncRequiredChild(
            syncLogFilterChild(s, ch, c, filter, Head(required), intervalsCache, inverted),
            ch, c, filter, Tail(required), intervalsCache, inverted)

\* populateEvents for a child-address filter: address IN (SELECT address
\* FROM address WHERE filter_id = ...).
RECURSIVE populateEventsChild(_, _, _, _)
populateEventsChild(db, filter, interval, address) ==
    IF address = {} THEN db
    ELSE LET a == CHOOSE x \in address : TRUE
         IN  populateEventsChild(populateEvents(db, [filter EXCEPT !.address = a], interval),
                                 filter, interval, address \ {a})

\* historicalSync.sync(window) of the one configured source.
AddressSync ==
    \E window \in AddressWindows, inverted \in InvertedOutcomes :
        LET filter == sources[1]
            h == hist[1]
            interval == SourceInterval(filter, window)
            required == RequiredIntervals(filter, window, h.intervalsCache, inverted)
            s0 == [db |-> syncStore, latestBlock |-> h.latestBlock, blockCache |-> {},
                   rpc |-> {}, blockRequests |-> <<>>, calls |-> {}, ok |-> TRUE]
            s1 == syncRequiredChild(s0, chain, 1, filter, SortIntervals(required),
                                    h.intervalsCache, inverted)
            s2 == IF required = {} THEN s0
                  ELSE [s1 EXCEPT
                          !.db = insertInterval(
                                    populateEventsChild(@, filter, interval,
                                        getAddresses(@, filter.address)),
                                    filter, interval),
                          !.calls = @ \cup {[op |-> "populateEvents", filter |-> filter.id,
                                             interval |-> interval],
                                            [op |-> "insertInterval", filter |-> filter.id,
                                             interval |-> interval]},
                          !.blockCache = {}]
        IN  /\ syncStore' = s2.db
            /\ hist' = [hist EXCEPT ![1].latestBlock = s2.latestBlock,
                                    ![1].window = window,
                                    ![1].rpc = s2.rpc,
                                    ![1].blockRequests = s2.blockRequests,
                                    ![1].calls = s2.calls]
            /\ UNCHANGED <<bloomCheck, pg, run, sources, local, localSyncs, realtimeSyncs,
                           chain, gen, raised, counters>>

\* createHistoricalSync for the one source: intervalsCache holds the "event"
\* intervals of the filter and the "address" intervals of its child filter.
createHistoricalSyncChild(store, filter) ==
    [createHistoricalSync(store, <<filter>>, filter.chainId) EXCEPT
        !.intervalsCache = [id \in {filter.id, filter.address.id} |->
                               intervalUnion(FilterIntervals(store.interval, id))]]

\* A new process, possibly configured with the other topic list.
AddressCreateHistoricalSync ==
    \E topics \in {1, 2} :
        /\ sources' = <<ParentFilter(topics)>>
        /\ syncStore' = CompactIntervals(syncStore, <<ParentFilter(topics), ChildFilter>>)
        /\ hist' = <<createHistoricalSyncChild(syncStore', ParentFilter(topics))>>
        /\ counters' = [counters EXCEPT !.restarts = 1]
        /\ UNCHANGED <<bloomCheck, pg, run, local, localSyncs, realtimeSyncs, chain, gen, raised>>

InitAddress ==
    /\ pg = PgIdle
    /\ run = RunInit
    /\ sources = <<ParentFilter(1)>>
    /\ syncStore = EmptyStore
    /\ local = <<>>
    /\ hist = <<createHistoricalSyncChild(EmptyStore, ParentFilter(1))>>
    /\ localSyncs = {}
    /\ realtimeSyncs = {}
    /\ chain = <<NewFollower(Finalized0(1), 0, [i \in 1..(Finalized0(1) + 1) |-> 0])>>
    /\ gen = GenIdle
    /\ raised = <<>>
    /\ counters = [failures |-> 0, reorgs |-> 0, restarts |-> 0]
    /\ bloomCheck = BloomIdle

NextAddress == AddressSync \/ AddressCreateHistoricalSync

SpecAddress == InitAddress /\ [][NextAddress]_vars

\* C32: child-address discovery is cached per child filter, independently
\* of the parent: a sync() requests the factory's logs only for blocks the
\* child filter's cached intervals do not cover and inserts an "address"
\* interval only when such blocks exist in the required interval; when the
\* child filter is complete for the window and the parent is not, the only
\* interval inserted is the parent's "event" interval.
C32_AddressCachedPerChildFilter ==
    LET h == hist[1]
        parent == sources[1]
        cached == IntervalBlocks(h.intervalsCache[ChildFilter.id])
        needed == IntervalBlocks({h.window}) \ IntervalBlocks(h.intervalsCache[parent.id])
    IN  /\ \A q \in h.rpc :
              q.method = "eth_getLogs" /\ q.filter = ChildFilter.id =>
                  /\ q.from <= q.to
                  /\ \A n \in q.from..q.to : n \in needed \ cached
        /\ \A call \in h.calls :
              call.filter = ChildFilter.id => IntervalBlocks({call.interval}) \ cached # {}
        /\ h.window \in AddressWindows /\ needed # {} /\ needed \subseteq cached =>
              /\ \A q \in h.rpc : q.filter # ChildFilter.id
              /\ {call \in h.calls : call.op = "insertInterval"}
                    = {[op |-> "insertInterval", filter |-> parent.id, interval |-> h.window]}

\* C32 witness: after a first process synced [0,3] with one parent filter,
\* a new process with a changed parent filter has synced a window: the
\* child filter was complete, the parent's events were materialized and only
\* the "event" interval was inserted.
C32_Witness ==
    /\ counters.restarts > 0
    /\ sources[1].id = ParentFilter(2).id
    /\ IntervalBlocks({hist[1].window}) \subseteq IntervalBlocks(hist[1].intervalsCache[ChildFilter.id])
    /\ hist[1].intervalsCache[sources[1].id] = {}
    /\ FilterIntervals(syncStore.interval, sources[1].id) = {hist[1].window}
    /\ \E q \in hist[1].rpc : q.filter = sources[1].id
    /\ \A q \in hist[1].rpc : q.filter # ChildFilter.id
    /\ \E e \in syncStore.event : e.filter_id = sources[1].id

\* C33: createLocalSync's endBlock is undefined if a filter of the chain has
\* no toBlock, and otherwise the block at the maximum toBlock among the
\* chain's filters.
C33_EndBlockIsMaxToBlock ==
    \A c \in DOMAIN local :
        LET toBlocks == {f.toBlock : f \in Range(ChainSources(sources, c))}
        IN  local[c].endBlock =
                IF Undefined \in toBlocks THEN Undefined
                ELSE CHOOSE n \in toBlocks : \A m \in toBlocks : m <= n

\* C34: LocalSync.latestBlock is the realtime override if one has been set;
\* else endBlock if endBlock is defined and fromBlock >= endBlock.number;
\* else finalizedBlock if fromBlock >= finalizedBlock.number; else the
\* historical sync's latestBlock (possibly undefined).
C34_LatestBlockPriority ==
    \A c \in DOMAIN local :
        LET l == local[c]
            value == latestBlock(l, hist[c])
            override == l.latestOverride # Undefined
            ended == l.endBlock # Undefined /\ l.fromBlock >= l.endBlock
            finalized == l.fromBlock >= l.finalizedBlock
        IN  /\ override => value = l.latestOverride
            /\ ~override /\ ended => value = l.endBlock
            /\ ~override /\ ~ended /\ finalized => value = l.finalizedBlock
            /\ ~override /\ ~ended /\ ~finalized => value = hist[c].latestBlock

\* C34 witness: no override, the cursor has reached both endBlock and the
\* finalized block, which differ, and the historical sync's latestBlock is
\* neither: endBlock is returned.
C34_Witness ==
    \E c \in DOMAIN local :
        /\ local[c].latestOverride = Undefined
        /\ local[c].endBlock # Undefined
        /\ local[c].fromBlock >= local[c].finalizedBlock
        /\ local[c].endBlock < local[c].finalizedBlock
        /\ hist[c].latestBlock > local[c].endBlock
        /\ latestBlock(local[c], hist[c]) = local[c].endBlock

\* A step in which chain c's LocalSync.sync() was called.
SyncCalled(c) ==
    /\ c \in gen.pending
    /\ c \notin gen'.pending
    /\ counters'.restarts = counters.restarts

\* C35: each LocalSync.sync() call requests the window
\* [fromBlock, min(fromBlock + step, finalizedBlock.number)] and sets
\* fromBlock to the window's upper bound; no window extends above the
\* finalized block, and each window starts where the cursor stood (the start
\* block at first, the previous window's upper bound afterwards), so the
\* windows leave no gap.
C35_SyncWindows ==
    [][\A c \in DOMAIN local :
          SyncCalled(c) =>
              /\ hist'[c].window[1] = local[c].fromBlock
              /\ hist'[c].window[2] = Min2(local[c].fromBlock + SyncStep(sources, c),
                                           local[c].finalizedBlock)
              /\ hist'[c].window[2] <= local[c].finalizedBlock
              /\ local'[c].fromBlock = hist'[c].window[2]
              /\ \/ local[c].fromBlock = local[c].startBlock
                 \/ local[c].fromBlock = hist[c].window[2]]_vars

\* C35 witness: a chain whose start block is below its finalized block has
\* been synced by more than one call: the last window starts above the
\* start block and ends at the finalized block, where the cursor now is.
C35_Witness ==
    \E c \in DOMAIN local :
        /\ counters.restarts = 0
        /\ hist[c].window[1] > local[c].startBlock
        /\ hist[c].window[1] < hist[c].window[2]
        /\ hist[c].window[2] = local[c].finalizedBlock
        /\ local[c].fromBlock = local[c].finalizedBlock
        /\ local[c].latestOverride = Undefined

(***************************************************************************)
(* Properties of the materialized checkpoints (Spec).                      *)
(***************************************************************************)
\* The stored log, block and transaction a log event row was made from.
EventLog(e) ==
    CHOOSE l \in syncStore.log :
        l.chain_id = e.chain_id /\ l.block_hash = e.block_hash /\ l.log_index = e.log_index

\* C36: the checkpoint of every log event decodes to the block timestamp,
\* chain id, block number and transaction index of its log, event type 5
\* and the log index.
C36_LogCheckpointFields ==
    \A e \in syncStore.event :
        e.log_index # Undefined =>
            /\ \E l \in syncStore.log :
                  l.chain_id = e.chain_id /\ l.block_hash = e.block_hash
                      /\ l.log_index = e.log_index
            /\ \E b \in syncStore.block, t \in syncStore.transaction :
                  /\ b.chain_id = e.chain_id /\ b.hash = e.block_hash
                  /\ t.chain_id = e.chain_id /\ t.hash = EventLog(e).transaction_hash
                  /\ decodeCheckpoint(e.checkpoint) =
                        [blockTimestamp |-> b.timestamp,
                         chainId |-> e.chain_id,
                         blockNumber |-> EventLog(e).block_number,
                         transactionIndex |-> t.transaction_index,
                         eventType |-> 5,
                         eventIndex |-> e.log_index]

\* C36 witness: a log event of the second log of a block above block 0.
C36_Witness ==
    \E e \in syncStore.event :
        /\ e.log_index > 0
        /\ e.block_number > 0
        /\ decodeCheckpoint(e.checkpoint).transactionIndex > 0
        /\ decodeCheckpoint(e.checkpoint).blockTimestamp > 0
        /\ decodeCheckpoint(e.checkpoint).blockNumber = e.block_number

(***************************************************************************)
(* SpecBloom: the log-bloom pre-filter (sync-realtime/bloom.ts).  A bloom  *)
(* is the set of its set bits; every address and topic hashes to a few     *)
(* bits, and two inputs may share bits.  An address constraint is          *)
(* <<"undefined">>, <<"single", a>>, <<"array", S>> or <<"filter">> (a     *)
(* child-address filter); a topic constraint is <<"null">>,                *)
(* <<"single", t>> or <<"array", S>>.                                      *)
(***************************************************************************)
BloomAddresses == {"a", "b"}
BloomTopics == {"t", "u"}

\* The bits keccak256(input) selects.
BloomBits(input) ==
    CASE input = "a" -> {1, 2}
      [] input = "b" -> {2, 3}
      [] input = "t" -> {1, 3}
      [] input = "u" -> {4, 5}

\* The logs a block may hold, and the block's logsBloom.
BloomLogs == [address : BloomAddresses, topic0 : BloomTopics]

LogsBloom(logs) == UNION {BloomBits(l.address) \cup BloomBits(l.topic0) : l \in logs}

isInBloom(bloom, input) == BloomBits(input) \subseteq bloom

BloomFilters ==
    [address : {<<"undefined">>, <<"filter">>}
                  \cup {<<"single", a>> : a \in BloomAddresses}
                  \cup {<<"array", S>> : S \in SUBSET BloomAddresses},
     topics : {<<>>}
                  \cup {<<<<"null">>>>}
                  \cup {<<<<"single", t>>>> : t \in BloomTopics}
                  \cup {<<<<"array", S>>>> : S \in (SUBSET BloomTopics) \ {{}}}]

\* isFilterInBloom: "true", "false", or "undefined" for the bare `return;`.
isFilterInBloom(bloom, filter) ==
    LET isAddressInBloom ==
            CASE filter.address[1] = "undefined" -> TRUE
              [] filter.address[1] = "array" ->
                    filter.address[2] = {} \/ \E a \in filter.address[2] : isInBloom(bloom, a)
              [] OTHER -> isInBloom(bloom, filter.address[2])
        isTopicsInBloom ==
            \/ filter.topics = <<>>
            \/ \E k \in 1..Len(filter.topics) :
                  CASE filter.topics[k][1] = "null" -> TRUE
                    [] filter.topics[k][1] = "array" ->
                          \E t \in filter.topics[k][2] : isInBloom(bloom, t)
                    [] OTHER -> isInBloom(bloom, filter.topics[k][2])
    IN  IF filter.address[1] = "filter" THEN "undefined"
        ELSE IF isAddressInBloom /\ isTopicsInBloom THEN "true" ELSE "false"

\* The follower looks at a block and asks whether a filter is in its bloom.
BloomCall ==
    /\ bloomCheck.phase = "block"
    /\ bloomCheck' = [bloomCheck EXCEPT
                         !.phase = "done",
                         !.result = isFilterInBloom(LogsBloom(bloomCheck.logs),
                                                    bloomCheck.filter)]
    /\ UNCHANGED <<pg, run, sources, syncStore, hist, local, localSyncs, realtimeSyncs,
                   chain, gen, raised, counters>>

InitBloom ==
    /\ pg = PgIdle
    /\ run = RunInit
    /\ sources = <<>>
    /\ syncStore = EmptyStore
    /\ local = <<>>
    /\ hist = <<>>
    /\ localSyncs = {}
    /\ realtimeSyncs = {}
    /\ chain = <<>>
    /\ gen = GenIdle
    /\ raised = <<>>
    /\ counters = [failures |-> 0, reorgs |-> 0, restarts |-> 0]
    /\ \E logs \in SUBSET BloomLogs, filter \in BloomFilters :
          bloomCheck = [phase |-> "block", logs |-> logs, filter |-> filter,
                        result |-> "undefined"]

NextBloom == BloomCall

SpecBloom == InitBloom /\ [][NextBloom]_vars

\* matchesLog: the address constraint (a child-address filter: the log's
\* address is one of the discovered child addresses, here "a") and the
\* per-position topic constraint.
BloomMatchesLog(log, filter) ==
    /\ CASE filter.address[1] = "undefined" -> TRUE
         [] filter.address[1] = "filter" -> log.address = "a"
         [] filter.address[1] = "array" ->
               filter.address[2] = {} \/ log.address \in filter.address[2]
         [] OTHER -> log.address = filter.address[2]
    /\ \A k \in 1..Len(filter.topics) :
          CASE filter.topics[k][1] = "null" -> TRUE
            [] filter.topics[k][1] = "array" -> log.topic0 \in filter.topics[k][2]
            [] OTHER -> log.topic0 = filter.topics[k][2]

\* C37: the pre-filter has no false negative: when the block holds a log
\* that matches the filter (literal address, address list, no address or
\* child-address filter), isFilterInBloom returns true.
C37_BloomNoFalseNegative ==
    bloomCheck.phase = "done" =>
        ((\E log \in bloomCheck.logs : BloomMatchesLog(log, bloomCheck.filter))
            => bloomCheck.result = "true")


\* The stored events of every chain's realtime blocks whose checkpoint the
\* minimum latest checkpoint passes in this step.
PassedRealtimeEvents ==
    {e \in SelectEvents(syncStore'.event, SourceIds(sources),
                        getChainsCheckpoint("latest", sources, local, hist),
                        getChainsCheckpoint("latest", sources, local', hist)) :
        decodeCheckpoint(e.checkpoint).blockNumber >
            Finalized0(decodeCheckpoint(e.checkpoint).chainId)}

Occurrences(seq, e) == Cardinality({i \in 1..Len(seq) : seq[i] = e})

ToComputed == gen.pc = "sync" /\ gen'.pc = "page"

\* C39: across iterations of getEvents()'s outer loop `to` is non-decreasing
\* and the cursor `from` never exceeds `to`; a LocalSync's latestBlock, once
\* defined, never moves to a lower block number as a sync() call advances
\* the fromBlock cursor (also with filters of different toBlock values).
C39_ToNonDecreasing ==
    [][/\ ToComputed => gen'.to >= gen.to
       /\ gen'.pc = "page" => gen'.from <= gen'.to
       /\ \A c \in Networks(sources) :
             (SyncCalled(c) /\ latestBlock(local[c], hist[c]) # Undefined) =>
                 latestBlock(local'[c], hist'[c]) >= latestBlock(local[c], hist[c])]_vars

\* C40: LocalSync's cursor fromBlock is non-decreasing over sync() calls and
\* every interval [lo, hi] passed to historicalSync.sync() has lo <= hi,
\* also when the chain's earliest filter fromBlock is above the finalized
\* block.
C40_CursorNonDecreasing ==
    [][\A c \in Networks(sources) :
          SyncCalled(c) =>
              /\ local'[c].fromBlock >= local[c].fromBlock
              /\ hist'[c].window[1] <= hist'[c].window[2]]_vars
====
